---------------------------- MODULE Spec2Model ----------------------------
(***************************************************************************)
(* Member join / leave notification configuration and rendering, default  *)
(* member roles, Minecraft server registration and shutdown of             *)
(* Imposterbot.RS:                                                         *)
(*   src/src/commands/member_management/notifications_implementation.rs    *)
(*   src/src/commands/member_management/roles.rs                           *)
(*   src/src/commands/minecraft.rs                                         *)
(*   src/src/events/guild_member.rs                                        *)
(*   src/src/shutdown.rs                                                   *)
(*   src/src/infrastructure/environment.rs                                 *)
(*   src/migration/src/m20260115_073352_rich_welcome_channel_configuration.rs *)
(*                                                                         *)
(* Strings are sequences of tokens.  A token is one character, or one      *)
(* whole placeholder such as "{name}" (the unit strfmt works on).          *)
(***************************************************************************)
EXTENDS Integers, Sequences, FiniteSets, TLC

\* ------------------------------------------------------------------ bounds
\* Number of v4 UUIDs the model lets try_create_file draw.
MaxUuid == 4
\* Number of configure invocations started over a run.
MaxInvocations == 2

\* ------------------------------------------------------------- vocabulary
Procs == {"A", "B"}
Guilds == {"g1"}
Keys == {<<g, j>> : g \in Guilds, j \in BOOLEAN}

TextFields == {"content", "title", "description", "author", "footer"}
MediaFields == {"thumbnail", "image", "author_icon", "footer_icon"}
\* the order in which configure_member_notifications_impl resolves media
MediaOrder == <<"thumbnail", "image", "author_icon", "footer_icon">>

BS == "\\"
NL == "\n"
EmptyString == <<>>

\* ------------------------------------------------------------ pure helpers
\* variant: only the first backslash followed by n is replaced
replace_escaped_newline_first(s) ==
    IF \E i \in 1..(Len(s) - 1) : s[i] = BS /\ s[i + 1] = "n"
    THEN LET i == CHOOSE j \in 1..(Len(s) - 1) :
                    /\ s[j] = BS /\ s[j + 1] = "n"
                    /\ \A k \in 1..(j - 1) : ~(s[k] = BS /\ s[k + 1] = "n")
         IN  SubSeq(s, 1, i - 1) \o <<NL>> \o SubSeq(s, i + 2, Len(s))
    ELSE s

\* str::replace("\\n", "\n"): every backslash followed by n becomes one
\* line break, scanning left to right.
RECURSIVE replace_escaped_newline(_)
replace_escaped_newline(s) ==
    IF Len(s) = 0 THEN <<>>
    ELSE IF Len(s) >= 2 /\ s[1] = BS /\ s[2] = "n"
         THEN <<NL>> \o replace_escaped_newline(SubSeq(s, 3, Len(s)))
         ELSE <<s[1]>> \o replace_escaped_newline(Tail(s))

\* OptionalClearable<T>: None (ignored) | Clear | Some(value)
OcNone == [tag |-> "None"]
OcClear == [tag |-> "Clear"]
OcSome(v) == [tag |-> "Some", val |-> v]

\* EmbedAttachment: URL(String) | File(Attachment)
EaURL(u) == [kind |-> "URL", url |-> u]
EaFile(att) == [kind |-> "File", att |-> att]
EmbedAttachment_default == EaURL(EmptyString)
is_file(x) == x.kind = "File"

\* Option<T>
Opt(v) == [some |-> TRUE, val |-> v]
OptNone == [some |-> FALSE]

\* variant: an absent value is ignored
OptionalClearable_from_ignored(value) ==
    IF value.some THEN OcSome(value.val) ELSE OcNone

\* impl From<Option<T>> for OptionalClearable<T>
OptionalClearable_from(value) ==
    IF value.some THEN OcSome(value.val) ELSE OcClear

\* variant: an ignored field is treated like a cleared one
OptionalClearable_into_default(oc, default) ==
    IF oc.tag = "Some" THEN Opt(oc.val) ELSE Opt(default)

\* impl Into<Option<T>> for OptionalClearable<T>, with T::default() given
OptionalClearable_into(oc, default) ==
    CASE oc.tag = "Some" -> Opt(oc.val)
      [] oc.tag = "Clear" -> Opt(default)
      [] oc.tag = "None" -> OptNone


\* ------------------------------------------------- rows and active models
\* Columns of member_notification_message as the ActiveModel names them.
IsFileCol(m) ==
    CASE m = "thumbnail" -> "thumbnail_is_file"
      [] m = "image" -> "image_is_file"
      [] m = "author_icon" -> "author_icon_is_file"
      [] m = "footer_icon" -> "footer_icon_is_file"

UrlCol(m) ==
    CASE m = "thumbnail" -> "thumbnail_url"
      [] m = "image" -> "image_url"
      [] m = "author_icon" -> "author_icon_url"
      [] m = "footer_icon" -> "footer_icon_url"

IsFileCols == {IsFileCol(m) : m \in MediaFields}
UrlCols == {UrlCol(m) : m \in MediaFields}
KeyCols == {"guild_id", "join"}
Columns == KeyCols \cup TextFields \cup IsFileCols \cup UrlCols

\* column default of the table: "" for text, false for the is-file flags
ColumnDefault(c) == IF c \in IsFileCols THEN FALSE ELSE EmptyString

\* sea_orm::ActiveValue
NotSet == [tag |-> "NotSet"]
Set(v) == [tag |-> "Set", val |-> v]
Unchanged(v) == [tag |-> "Unchanged", val |-> v]

\* variant: the key is the guild alone
RowKey_guild(row) == <<row["guild_id"], TRUE>>

\* the primary key (guild_id, join) of a row
RowKey(row) == <<row["guild_id"], row["join"]>>

\* Model::into_active_model: every column Unchanged
into_active_model(row) == [c \in Columns |-> Unchanged(row[c])]

\* ActiveModel { guild_id: Set(..), join: Set(..), ..Default::default() }
new_active_model(key) ==
    [c \in Columns |->
        CASE c = "guild_id" -> Set(key[1])
          [] c = "join" -> Set(key[2])
          [] OTHER -> NotSet]

\* the (model, update) pair built from the result of find_by_id
ActiveModelFor(existing, key) ==
    IF existing.some
    THEN [model |-> into_active_model(existing.val), update |-> TRUE]
    ELSE [model |-> new_active_model(key), update |-> FALSE]

\* variant: the is_file flag is not consulted
active_model_file_attachment_any(is_file_av, file_url) ==
    IF file_url.tag = "NotSet" THEN OptNone ELSE Opt(file_url.val)

\* fn active_model_file_attachment(is_file, file_url) -> Option<String>
active_model_file_attachment(is_file_av, file_url) ==
    IF ~(CASE is_file_av.tag = "Set" -> is_file_av.val
           [] is_file_av.tag = "Unchanged" -> is_file_av.val
           [] is_file_av.tag = "NotSet" -> FALSE)
    THEN OptNone
    ELSE CASE file_url.tag = "Set" -> Opt(file_url.val)
           [] file_url.tag = "Unchanged" -> Opt(file_url.val)
           [] file_url.tag = "NotSet" -> OptNone

\* if let Some(x) = request.<text>.into() { model.<text> = Set(x.replace(..)) }
ApplyText(model, f, oc) ==
    LET x == OptionalClearable_into(oc, EmptyString)
    IN  IF x.some
        THEN [model EXCEPT ![f] = Set(replace_escaped_newline(x.val))]
        ELSE model

\* variant: the prior file is listed also when the field is left as it is
PushOrphan_unset(model, files_to_delete, m, oc) ==
    LET old_file == active_model_file_attachment(model[IsFileCol(m)], model[UrlCol(m)])
    IN  IF old_file.some
        THEN Append(files_to_delete, old_file.val)
        ELSE files_to_delete

\* the files_to_delete list after the orphan check of media field m
PushOrphan(model, files_to_delete, m, oc) ==
    LET x == OptionalClearable_into(oc, EmbedAttachment_default)
        old_file == active_model_file_attachment(model[IsFileCol(m)], model[UrlCol(m)])
    IN  IF x.some /\ old_file.some
        THEN Append(files_to_delete, old_file.val)
        ELSE files_to_delete

\* variant: the is_file flag is left as it was
ApplyMedia_url_only(model, m, oc, url) ==
    LET x == OptionalClearable_into(oc, EmbedAttachment_default)
    IN  IF x.some THEN [model EXCEPT ![UrlCol(m)] = Set(url)] ELSE model

\* model.<m>_is_file = Set(x.is_file()); model.<m>_url = Set(url)
\* where url is what get_url_and_create_attachment returned
ApplyMedia(model, m, oc, url) ==
    LET x == OptionalClearable_into(oc, EmbedAttachment_default)
    IN  IF x.some
        THEN [model EXCEPT ![IsFileCol(m)] = Set(is_file(x.val)),
                           ![UrlCol(m)] = Set(url)]
        ELSE model

\* the text fields assigned before the media field m is resolved
TextsBefore(m) ==
    CASE m = "thumbnail" -> <<"content", "title", "description">>
      [] m = "image" -> <<>>
      [] m = "author_icon" -> <<"author">>
      [] m = "footer_icon" -> <<"footer">>

RECURSIVE ApplyTexts(_, _, _)
ApplyTexts(model, fs_, request) ==
    IF Len(fs_) = 0 THEN model
    ELSE ApplyTexts(ApplyText(model, Head(fs_), request[Head(fs_)]), Tail(fs_), request)

\* ------------------------------------------------------------ record store
\* INSERT of the active model: columns that are NotSet take the column default
InsertedRow(model) ==
    [c \in Columns |->
        IF model[c].tag = "NotSet" THEN ColumnDefault(c) ELSE model[c].val]

\* variant: the update writes the default of every column that is not Set
UpdatedRow_replacing(row, model) ==
    [c \in Columns |->
        IF model[c].tag = "Set" THEN model[c].val
        ELSE IF c \in KeyCols THEN row[c] ELSE ColumnDefault(c)]

\* UPDATE ... SET <the Set columns> WHERE guild_id = .. AND join = ..
UpdatedRow(row, model) ==
    [c \in Columns |-> IF model[c].tag = "Set" THEN model[c].val ELSE row[c]]

ModelKey(model) == <<model["guild_id"].val, model["join"].val>>

RowsWithKey(rows, key) == {r \in rows : RowKey(r) = key}

\* Entity::find_by_id(key).one(db)
find_by_id(rows, key) ==
    IF RowsWithKey(rows, key) = {} THEN OptNone
    ELSE Opt(CHOOSE r \in RowsWithKey(rows, key) : TRUE)

\* variant: a table without the primary key
insert_violates_primary_key_never(rows, model) == FALSE

\* the primary key (guild_id, join) rejects a second row with the same key
insert_violates_primary_key(rows, model) ==
    RowsWithKey(rows, ModelKey(model)) # {}

\* rows after Entity::insert(model).exec(db) succeeded
insert_exec(rows, model) == rows \cup {InsertedRow(model)}

\* variant: an update leaves the rows as they are
update_exec_ignored(rows, model) == rows

\* rows after model.update(db) succeeded
update_exec(rows, model) ==
    {IF RowKey(r) = ModelKey(model) THEN UpdatedRow(r, model) ELSE r : r \in rows}

\* -------------------------------------------------------------- filesystem
\* A path is a directory (components below the working directory) and a name.
Path(dir, name) == [dir |-> dir, name |-> name]

\* get_data_directory(): "./data" unless DATA_DIRECTORY says otherwise
get_data_directory == <<"data">>

\* get_guild_user_content_directory(guild_id)
get_guild_user_content_directory(guild_id) ==
    get_data_directory \o <<"user_content", guild_id>>

\* path.join(file)
GuildPath(guild_id, file) == Path(get_guild_user_content_directory(guild_id), file)

\* the path tokio::fs::remove_file(file) resolves in the rollback loop of
\* create_file_from_attachment_safe: `file` is an entry of files_added
RollbackPath(guild_id, file) == Path(<<>>, file)

\* tokio::fs::remove_file: fails when the path is absent or on an I/O fault
remove_file_ok(files, path, fault) == path \in files /\ ~fault
remove_file(files, path, fault) ==
    IF remove_file_ok(files, path, fault) THEN files \ {path} ELSE files

RECURSIVE LastDot(_, _)
LastDot(s, i) == IF i = 0 THEN 0 ELSE IF s[i] = "." THEN i ELSE LastDot(s, i - 1)

\* Path::new(&attachment.filename).extension()
Extension(filename) ==
    LET d == LastDot(filename, Len(filename))
    IN  IF d <= 1 THEN OptNone
        ELSE Opt(SubSeq(filename, d + 1, Len(filename)))

\* variant: every identifier is the same
Uuid_repeating(n) == "u0"

\* the n-th identifier Uuid::new_v4() hands out
Uuid(n) == "u" \o ToString(n)

\* random_filename of try_create_file
random_filename(n, attachment) ==
    LET ext == Extension(attachment.filename)
    IN  IF ext.some THEN <<Uuid(n), ".">> \o ext.val ELSE <<Uuid(n)>>

\* outcomes of try_create_file
CreateOutcomes ==
    {"Ok", "DiscordApiError", "CreateFileError", "WriteError", "FlushError"}
\* outcomes that leave a (complete or partial) file in the guild directory
FileCreated(outcome) == outcome \in {"Ok", "WriteError", "FlushError"}
\* errors that carry the file name
ErrorNamesFile(outcome) == outcome \in {"WriteError", "FlushError"}

RECURSIVE RemoveAll(_, _, _, _)
\* for file in files_added { remove_file(file) } of the rollback
RemoveAll(files, guild_id, names, fault) ==
    IF Len(names) = 0 THEN files
    ELSE RemoveAll(remove_file(files, RollbackPath(guild_id, Head(names)), fault),
                   guild_id, Tail(names), fault)

\* create_file_from_attachment_safe(guild_id, attachment, files_added) with
\* the outcome of try_create_file and of the rollback's remove_file calls
create_file_from_attachment_safe(files, guild_id, attachment, files_added, n, outcome, fault) ==
    LET name == random_filename(n, attachment)
        created == IF FileCreated(outcome)
                   THEN files \cup {GuildPath(guild_id, name)} ELSE files
    IN  IF outcome = "Ok"
        THEN [ok |-> TRUE, val |-> name, files |-> created,
              files_added |-> Append(files_added, name)]
        ELSE LET added == IF ErrorNamesFile(outcome)
                          THEN Append(files_added, name) ELSE files_added
             IN  [ok |-> FALSE, val |-> EmptyString,
                  files |-> RemoveAll(created, guild_id, added, fault),
                  files_added |-> added]

\* EmbedAttachment::get_url_and_create_attachment
get_url_and_create_attachment(files, guild_id, x, files_added, n, outcome, fault) ==
    IF x.kind = "URL"
    THEN [ok |-> TRUE, val |-> x.url, files |-> files, files_added |-> files_added]
    ELSE create_file_from_attachment_safe(files, guild_id, x.att, files_added,
                                          n, outcome, fault)

\* --------------------------------------------------------------- rendering
\* the placeholder tokens and the key each one names
PlaceholderTokens ==
    {"{name}", "{mention}", "{user_avatar}", "{member_count}",
     "{online_member_count}", "{rules}"}

PlaceholderKey(tok) ==
    CASE tok = "{name}" -> "name"
      [] tok = "{mention}" -> "mention"
      [] tok = "{user_avatar}" -> "user_avatar"
      [] tok = "{member_count}" -> "member_count"
      [] tok = "{online_member_count}" -> "online_member_count"
      [] tok = "{rules}" -> "rules"

\* variant: the format string is returned as it is
strfmt_unformatted(fmt, args) == [ok |-> TRUE, val |-> fmt]

\* strfmt(fmt, args): Ok(text with every {key} replaced by args[key]);
\* Err on a key that args lacks and on an unmatched brace; {{ and }} are
\* the escapes of the braces.
RECURSIVE strfmt(_, _)
strfmt(fmt, args) ==
    IF Len(fmt) = 0 THEN [ok |-> TRUE, val |-> <<>>]
    ELSE LET tok == Head(fmt)
             rest == strfmt(Tail(fmt), args)
         IN  IF tok \in PlaceholderTokens
             THEN IF PlaceholderKey(tok) \in DOMAIN args /\ rest.ok
                  THEN [ok |-> TRUE, val |-> args[PlaceholderKey(tok)] \o rest.val]
                  ELSE [ok |-> FALSE, val |-> <<>>]
             ELSE IF tok \in {"{", "}"}
             THEN [ok |-> FALSE, val |-> <<>>]
             ELSE IF ~rest.ok THEN rest
             ELSE IF tok = "{{" THEN [ok |-> TRUE, val |-> <<"{">> \o rest.val]
             ELSE IF tok = "}}" THEN [ok |-> TRUE, val |-> <<"}">> \o rest.val]
             ELSE [ok |-> TRUE, val |-> <<tok>> \o rest.val]

\* Result::ok()
ResultOk(r) == IF r.ok THEN Opt(r.val) ELSE OptNone

\* the guild counts both constructors insert when the lookup succeeded
GuildArgs(guild) ==
    LET mc == IF guild.some /\ guild.val.approximate_member_count.some
              THEN {"member_count"} ELSE {}
        pc_ == IF guild.some /\ guild.val.approximate_presence_count.some
               THEN {"online_member_count"} ELSE {}
    IN  [k \in mc \cup pc_ |->
            IF k = "member_count" THEN guild.val.approximate_member_count.val
            ELSE guild.val.approximate_presence_count.val]

\* fmtargs of MemberNotificationMessageDetails::for_member
for_member_args(member, guild) ==
    LET g == GuildArgs(guild)
        av == IF member.avatar.some THEN {"user_avatar"} ELSE {}
    IN  [k \in {"name", "mention"} \cup av \cup DOMAIN g |->
            CASE k = "name" -> member.name
              [] k = "mention" -> member.mention
              [] k = "user_avatar" -> member.avatar.val
              [] OTHER -> g[k]]

NotYetImplemented == <<"(Not yet implemented)">>

\* fmtargs of MemberNotificationMessageDetails::for_user
for_user_args(user, guild) ==
    LET g == GuildArgs(guild)
        av == IF user.avatar.some THEN {"user_avatar"} ELSE {}
    IN  [k \in {"name", "rules"} \cup av \cup DOMAIN g |->
            CASE k = "name" -> user.name
              [] k = "rules" -> NotYetImplemented
              [] k = "user_avatar" -> user.avatar.val
              [] OTHER -> g[k]]

\* MemberNotificationFile
MemberNotificationFile(attachment, url) == [attachment |-> attachment, url |-> url]

\* fn get_string(fmt, args) of from_fmt_args
get_string(fmt, args) ==
    IF fmt.some THEN ResultOk(strfmt(fmt.val, args)) ELSE OptNone

\* variant: the url of a local file is formatted like that of a URL
get_attachment_formatted(fmt, args) ==
    IF fmt.some
    THEN LET formatted_url == ResultOk(strfmt(fmt.val.url, args))
         IN  IF formatted_url.some
             THEN Opt(MemberNotificationFile(fmt.val.attachment, formatted_url.val))
             ELSE OptNone
    ELSE OptNone

\* fn get_attachment(fmt, args) of from_fmt_args
get_attachment(fmt, args) ==
    IF fmt.some
    THEN LET content_fmt == fmt.val
             formatted_url == ResultOk(strfmt(content_fmt.url, args))
         IN  IF formatted_url.some
             THEN Opt(MemberNotificationFile(content_fmt.attachment,
                        IF content_fmt.attachment THEN content_fmt.url
                        ELSE formatted_url.val))
             ELSE IF content_fmt.attachment
                  THEN Opt(MemberNotificationFile(content_fmt.attachment, content_fmt.url))
                  ELSE OptNone
    ELSE OptNone

\* MemberNotificationMessageDetails::format
format(content, embed, description, thumbnail, author, author_icon_url, footer, footer_icon_url) ==
    [content |-> content,
     embed |-> IF embed
               THEN Opt([description |-> description, thumbnail |-> thumbnail,
                         author |-> author, author_icon_url |-> author_icon_url,
                         footer |-> footer, footer_icon_url |-> footer_icon_url])
               ELSE OptNone]

\* MemberNotificationMessageDetails::from_fmt_args
from_fmt_args(fmtargs, fmt) ==
    [content |-> get_string(fmt.content, fmtargs),
     embed |-> IF fmt.embed.some
               THEN LET embd_fmt == fmt.embed.val
                    IN  Opt([description |-> get_string(embd_fmt.description, fmtargs),
                             thumbnail |-> get_attachment(embd_fmt.thumbnail, fmtargs),
                             author |-> get_string(embd_fmt.author, fmtargs),
                             author_icon_url |-> get_attachment(embd_fmt.author_icon_url, fmtargs),
                             footer |-> get_string(embd_fmt.footer, fmtargs),
                             footer_icon_url |-> get_attachment(embd_fmt.footer_icon_url, fmtargs)])
               ELSE OptNone]

for_member(member, guild, fmt) == from_fmt_args(for_member_args(member, guild), fmt)
for_user(user, guild, fmt) == from_fmt_args(for_user_args(user, guild), fmt)

\* fn optional_string / fn optional_attachment of get_member_notification_details
optional_string(string) == IF Len(string) = 0 THEN OptNone ELSE Opt(string)
optional_attachment(file, url) ==
    IF Len(url) = 0 THEN OptNone ELSE Opt(MemberNotificationFile(file, url))

\* variant: an icon reference alone asks for an embed as well
DetailsOfRow_icons(model) ==
    format(optional_string(model["content"]),
           Len(model["description"]) # 0 \/ Len(model["author"]) # 0
               \/ Len(model["footer"]) # 0 \/ Len(model["thumbnail_url"]) # 0
               \/ Len(model["author_icon_url"]) # 0 \/ Len(model["footer_icon_url"]) # 0,
           optional_string(model["description"]),
           optional_attachment(model["thumbnail_is_file"], model["thumbnail_url"]),
           optional_string(model["author"]),
           optional_attachment(model["author_icon_is_file"], model["author_icon_url"]),
           optional_string(model["footer"]),
           optional_attachment(model["footer_icon_is_file"], model["footer_icon_url"]))

\* the closure get_member_notification_details maps over the row it found
DetailsOfRow(model) ==
    format(optional_string(model["content"]),
           Len(model["description"]) # 0 \/ Len(model["author"]) # 0
               \/ Len(model["footer"]) # 0 \/ Len(model["thumbnail_url"]) # 0,
           optional_string(model["description"]),
           optional_attachment(model["thumbnail_is_file"], model["thumbnail_url"]),
           optional_string(model["author"]),
           optional_attachment(model["author_icon_is_file"], model["author_icon_url"]),
           optional_string(model["footer"]),
           optional_attachment(model["footer_icon_is_file"], model["footer_icon_url"]))

\* get_member_notification_details(db, guild_id, join); a query error is None
get_member_notification_details(rows, key, db_err) ==
    IF db_err THEN OptNone
    ELSE LET model == find_by_id(rows, key)
         IN  IF model.some THEN Opt(DetailsOfRow(model.val)) ELSE OptNone

\* format!("attachment://{}", attachment.filename)
AttachmentUrl(name) == <<"attachment://">> \o name

\* variant: the reference of a local file is put in the embed before the
\* file is read
EmbedFile_reference_first(files, guild_id, file) ==
    IF file.some
    THEN IF file.val.attachment
         THEN [ref |-> Opt(AttachmentUrl(file.val.url)),
               att |-> IF GuildPath(guild_id, file.val.url) \in files
                       THEN <<file.val.url>> ELSE <<>>]
         ELSE [ref |-> Opt(file.val.url), att |-> <<>>]
    ELSE [ref |-> OptNone, att |-> <<>>]

\* one media use site of to_embed: the reference put in the embed (if any)
\* and the attachments pushed for it
EmbedFile(files, guild_id, file) ==
    IF file.some
    THEN IF file.val.attachment
         THEN IF GuildPath(guild_id, file.val.url) \in files
              THEN [ref |-> Opt(AttachmentUrl(file.val.url)), att |-> <<file.val.url>>]
              ELSE [ref |-> OptNone, att |-> <<>>]
         ELSE [ref |-> Opt(file.val.url), att |-> <<>>]
    ELSE [ref |-> OptNone, att |-> <<>>]

NoFile == [ref |-> OptNone, att |-> <<>>]

\* MemberNotificationMessageDetails::to_embed
to_embed(details, guild_id, files) ==
    IF details.embed.some
    THEN LET e == details.embed.val
             th == EmbedFile(files, guild_id, e.thumbnail)
             ai == IF e.author.some
                   THEN EmbedFile(files, guild_id, e.author_icon_url) ELSE NoFile
             fi == IF e.footer.some
                   THEN EmbedFile(files, guild_id, e.footer_icon_url) ELSE NoFile
         IN  Opt([embed |-> [description |-> e.description,
                             thumbnail |-> th.ref,
                             author |-> e.author,
                             author_icon |-> ai.ref,
                             footer |-> e.footer,
                             footer_icon |-> fi.ref],
                  attachments |-> th.att \o ai.att \o fi.att])
    ELSE OptNone

NoEmbed ==
    [description |-> OptNone, thumbnail |-> OptNone, author |-> OptNone,
     author_icon |-> OptNone, footer |-> OptNone, footer_icon |-> OptNone]

\* MemberNotificationMessageDetails::to_message (to_reply builds the same
\* content, embed and attachments on a CreateReply)
to_message(details, guild_id, files) ==
    LET embed_opt == to_embed(details, guild_id, files)
    IN  [content |-> details.content,
         has_embed |-> embed_opt.some,
         embed |-> IF embed_opt.some THEN embed_opt.val.embed ELSE NoEmbed,
         files |-> IF embed_opt.some THEN embed_opt.val.attachments ELSE <<>>]

\* ------------------------------------------------------------------ inputs
TextA == <<"a">>
TextEsc == <<"a", BS, "n", "b">>
TextEscTwice == <<BS, BS, "n", BS, "n", "n">>
UrlH == <<"h">>
AttPng == [filename |-> <<"i", ".", "p">>]
AttNoExt == [filename |-> <<"i">>]

\* variant: the default request clears every field
DefaultRequest_clearing == [f \in TextFields \cup MediaFields |-> OcClear]

\* NotificationManagementRequest::default(): every field None (ignored)
DefaultRequest == [f \in TextFields \cup MediaFields |-> OcNone]

\* builder methods content / title / description / author / footer
WithText(req, f, value) == [req EXCEPT ![f] = OptionalClearable_from(value)]

\* variant: the URL is looked at before the uploaded file
WithMedia_url_first(req, m, file, url) ==
    [req EXCEPT ![m] =
        OptionalClearable_from(
            IF url.some THEN Opt(EaURL(url.val))
            ELSE IF file.some THEN Opt(EaFile(file.val))
            ELSE OptNone)]

\* builder methods thumbnail / image / author_icon / footer_icon:
\* file.map(File).or(url.map(URL)).into()
WithMedia(req, m, file, url) ==
    [req EXCEPT ![m] =
        OptionalClearable_from(
            IF file.some THEN Opt(EaFile(file.val))
            ELSE IF url.some THEN Opt(EaURL(url.val))
            ELSE OptNone)]

\* member_cmd_impl!: the single-field commands
TextCommand(f, value) == WithText(DefaultRequest, f, value)
MediaCommand(m, file, url) == WithMedia(DefaultRequest, m, file, url)

\* MemberEventConfigurer::full_impl
FullCommand(text, file, url) ==
    LET r1 == WithText(DefaultRequest, "content", text["content"])
        r2 == WithText(r1, "title", text["title"])
        r3 == WithText(r2, "description", text["description"])
        r4 == WithMedia(r3, "thumbnail", file["thumbnail"], url["thumbnail"])
        r5 == WithMedia(r4, "image", file["image"], url["image"])
        r6 == WithText(r5, "author", text["author"])
        r7 == WithMedia(r6, "author_icon", file["author_icon"], url["author_icon"])
        r8 == WithText(r7, "footer", text["footer"])
    IN  WithMedia(r8, "footer_icon", file["footer_icon"], url["footer_icon"])

NoTexts == [f \in TextFields |-> OptNone]
NoMedia == [m \in MediaFields |-> OptNone]

\* the raw parameters of a command: its kind, the field a single-field
\* command targets, and the values the administrator supplied
RawText(f, value) ==
    [kind |-> "single", target |-> f, text |-> [NoTexts EXCEPT ![f] = value],
     file |-> NoMedia, url |-> NoMedia]
RawMedia(m, file, url) ==
    [kind |-> "single", target |-> m, text |-> NoTexts,
     file |-> [NoMedia EXCEPT ![m] = file], url |-> [NoMedia EXCEPT ![m] = url]]
RawFull(text, file, url) ==
    [kind |-> "full", target |-> "all", text |-> text, file |-> file, url |-> url]
NoRaw == [kind |-> "none"]

\* the request the command implementation builds from the raw parameters
RequestOf(raw) ==
    IF raw.kind = "full" THEN FullCommand(raw.text, raw.file, raw.url)
    ELSE IF raw.target \in TextFields
         THEN TextCommand(raw.target, raw.text[raw.target])
         ELSE MediaCommand(raw.target, raw.file[raw.target], raw.url[raw.target])

Command(key, raw) == [key |-> key, raw |-> raw, request |-> RequestOf(raw)]
JoinKey == <<"g1", TRUE>>
LeaveKey == <<"g1", FALSE>>

\* the commands the administrators of the concurrent model issue
ConcurrentCommands ==
    { Command(JoinKey, RawFull([NoTexts EXCEPT !["content"] = Opt(TextA)],
                                   [m \in MediaFields |-> Opt(AttPng)], NoMedia)),
      Command(JoinKey, RawFull(NoTexts, NoMedia, NoMedia)),
      Command(JoinKey, RawMedia("thumbnail", Opt(AttPng), OptNone)),
      Command(JoinKey, RawMedia("thumbnail", OptNone, Opt(UrlH))),
      Command(JoinKey, RawText("content", Opt(TextEsc))),
      Command(LeaveKey, RawMedia("thumbnail", Opt(AttNoExt), OptNone)) }

\* the commands of the sequential model: every single-field command with its
\* parameter omitted or supplied, and three uses of the full command
MergeTexts == {TextA, TextEsc, TextEscTwice}
FullTextsUrls ==
    RawFull([f \in TextFields |-> Opt(TextA)], NoMedia, [m \in MediaFields |-> Opt(UrlH)])
FullMixed ==
    RawFull([NoTexts EXCEPT !["content"] = Opt(TextEsc)],
                [NoMedia EXCEPT !["thumbnail"] = Opt(AttPng)],
                [NoMedia EXCEPT !["image"] = Opt(UrlH)])
FullEscUploads ==
    RawFull([f \in TextFields |-> Opt(TextEsc)],
                [m \in MediaFields |-> Opt(AttPng)], [m \in MediaFields |-> Opt(UrlH)])
MergeCommands ==
    {Command(JoinKey, RawText(f, v)) :
        f \in TextFields, v \in {OptNone} \cup {Opt(t) : t \in MergeTexts}}
    \cup {Command(JoinKey, RawMedia(m, file, url)) :
            m \in MediaFields, file \in {OptNone, Opt(AttPng)}, url \in {OptNone, Opt(UrlH)}}
    \cup {Command(JoinKey, r) :
            r \in {RawFull(NoTexts, NoMedia, NoMedia), FullTextsUrls, FullMixed,
                   FullEscUploads}}

\* the commands that supply no value: every single-field command with its
\* parameter omitted, and the full command with every parameter omitted
ClearCommands ==
    {Command(JoinKey, RawText(f, OptNone)) : f \in TextFields}
    \cup {Command(JoinKey, RawMedia(m, OptNone, OptNone)) : m \in MediaFields}
    \cup {Command(JoinKey, RawFull(NoTexts, NoMedia, NoMedia))}

\* the commands of the preview model: a text that names a guild count, an
\* omitted text, a URL, and a command for the other event type
TextCount == <<"M", "{member_count}">>
PreviewCommands ==
    {Command(JoinKey, RawText("content", Opt(TextCount))),
     Command(JoinKey, RawText("footer", OptNone)),
     Command(JoinKey, RawMedia("author_icon", OptNone, Opt(UrlH))),
     Command(LeaveKey, RawText("content", Opt(TextA)))}

\* a file name an earlier upload of field m left in the record
FieldIndex(m) ==
    CASE m = "thumbnail" -> 1
      [] m = "image" -> 2
      [] m = "author_icon" -> 3
      [] m = "footer_icon" -> 4
EarlierUpload(m) == random_filename(10 + FieldIndex(m), AttPng)

\* uploads whose file extension is the text of a placeholder, or a brace
AttNamed == [filename |-> <<"i", ".", "{name}">>]
AttBrace == [filename |-> <<"i", ".", "{">>]
\* the kinds of stored media that are local files
FileKinds == {"file", "file_named", "file_brace"}

TextX == <<"x">>
\* stored text columns: none, one or all of them non-empty
StoredTexts ==
    {t \in [TextFields -> {EmptyString, TextX}] :
        Cardinality({f \in TextFields : t[f] # EmptyString}) \in {0, 1, Cardinality(TextFields)}}
\* stored media columns: empty, a URL, or a local file
StoredMediaKinds == [MediaFields -> {"empty", "url", "file"}]

StoredRow(key, t, k) ==
    [c \in Columns |->
        IF c = "guild_id" THEN key[1]
        ELSE IF c = "join" THEN key[2]
        ELSE IF c \in TextFields THEN t[c]
        ELSE IF c \in IsFileCols
             THEN k[CHOOSE m \in MediaFields : IsFileCol(m) = c] \in FileKinds
        ELSE LET m == CHOOSE x \in MediaFields : UrlCol(x) = c
             IN  CASE k[m] = "empty" -> EmptyString
                   [] k[m] = "url" -> UrlH
                   [] k[m] = "avatar" -> <<"{user_avatar}">>
                   [] k[m] = "file_named" -> random_filename(10 + FieldIndex(m), AttNamed)
                   [] k[m] = "file_brace" -> random_filename(10 + FieldIndex(m), AttBrace)
                   [] k[m] = "file" -> EarlierUpload(m)]

\* the stores the sequential model starts from: no record, or one record
MergeStores ==
    {{}} \cup {{StoredRow(JoinKey, t, k)} : t \in StoredTexts, k \in StoredMediaKinds}

\* the stores the preview model starts from: no record, or a Join record
\* with every text or none, and with local files in every rendered media
\* field, in the thumbnail alone, or in none
PreviewStores ==
    {{}} \cup
    {{StoredRow(JoinKey, t, k)} :
        t \in {[f \in TextFields |-> TextX], [f \in TextFields |-> EmptyString]},
        k \in {[m \in MediaFields |-> IF m \in S THEN "file" ELSE "empty"] :
                S \in {{}, {"thumbnail"}, {"thumbnail", "author_icon", "footer_icon"}}}}

\* the commands of the concurrent model over a configured guild: a
\* thumbnail upload, a thumbnail URL and a full replace with nothing
\* supplied for the Join record, a thumbnail upload for the Leave record
RaceCommands ==
    { Command(JoinKey, RawMedia("thumbnail", Opt(AttPng), OptNone)),
      Command(JoinKey, RawMedia("thumbnail", OptNone, Opt(UrlH))),
      Command(JoinKey, RawFull(NoTexts, NoMedia, NoMedia)),
      Command(LeaveKey, RawMedia("thumbnail", Opt(AttPng), OptNone)) }

\* the stores that model starts from: a Join record with text only, or a
\* Join record with an uploaded thumbnail beside a Leave record with an
\* uploaded author icon and the Join record of another guild with an
\* uploaded footer icon
RaceStores ==
    { {StoredRow(JoinKey, [f \in TextFields |-> IF f = "content" THEN TextX ELSE EmptyString],
                 [m \in MediaFields |-> "empty"])},
      {StoredRow(JoinKey, [f \in TextFields |-> EmptyString],
                 [m \in MediaFields |-> IF m = "thumbnail" THEN "file" ELSE "empty"]),
       StoredRow(LeaveKey, [f \in TextFields |-> IF f = "author" THEN TextX ELSE EmptyString],
                 [m \in MediaFields |-> IF m = "author_icon" THEN "file" ELSE "empty"]),
       StoredRow(<<"g2", TRUE>>, [f \in TextFields |-> IF f = "footer" THEN TextX ELSE EmptyString],
                 [m \in MediaFields |-> IF m = "footer_icon" THEN "file" ELSE "empty"])} }

\* the local files the rows of a store reference
StoreFiles(rows) ==
    UNION {{GuildPath(r["guild_id"], r[UrlCol(m)]) :
                m \in {x \in MediaFields : r[IsFileCol(x)]}} : r \in rows}

\* ------------------------------------------------------------ member events
\* MemberEvent::Join(member) / MemberEvent::Leave(guild_id, user)
Join(guild_id, member) == [kind |-> "join", guild_id |-> guild_id, who |-> member]
Leave(guild_id, user) == [kind |-> "leave", guild_id |-> guild_id, who |-> user]

\* variant: the channel of either event type of the guild is taken
get_member_notification_channel_any(chans, key, db_err) ==
    IF db_err THEN OptNone
    ELSE LET found == {c \in chans : c.guild_id = key[1]}
         IN  IF found = {} THEN OptNone
             ELSE Opt((CHOOSE c \in found : TRUE).channel_id)

\* get_member_notification_channel(db, guild_id, join); a query error is None
get_member_notification_channel(chans, key, db_err) ==
    IF db_err THEN OptNone
    ELSE LET found == {c \in chans : c.guild_id = key[1] /\ c.join = key[2]}
         IN  IF found = {} THEN OptNone
             ELSE Opt((CHOOSE c \in found : TRUE).channel_id)

\* what find().filter(GuildId.eq(guild_id)).one(db) may return: no row when
\* the guild has none, else one of its rows
one_row(roles, guild_id) ==
    LET found == {r \in roles : r.guild_id = guild_id}
    IN  IF found = {} THEN {OptNone} ELSE {Opt(r) : r \in found}

\* get_member_roles_on_join(db, guild_id); a query error is None
get_member_roles_on_join(one, db_err) ==
    IF db_err THEN OptNone
    ELSE Opt(IF one.some THEN <<one.val.role_id>> ELSE <<>>)

\* what a handler that returned early leaves behind
NotSent(channel, fmt) ==
    [channel |-> channel, format |-> fmt, content |-> OptNone, reply |-> OptNone,
     sent |-> FALSE, result |-> "Ok"]

\* notify_member_event(ctx, data, event); send_err: channel.send_message fails
notify_member_event(rows, chans, files, event, guild, ch_err, db_err, send_err) ==
    LET guild_id == event.guild_id
        join == event.kind = "join"
        channel == get_member_notification_channel(chans, <<guild_id, join>>, ch_err)
        fmt == get_member_notification_details(rows, <<guild_id, join>>, db_err)
    IN  IF ~channel.some THEN NotSent(channel, fmt)
        ELSE IF ~fmt.some THEN NotSent(channel, fmt)
        ELSE LET content == IF join THEN for_member(event.who, guild, fmt.val)
                            ELSE for_user(event.who, guild, fmt.val)
                 reply == to_message(content, guild_id, files)
             IN  [channel |-> channel, format |-> fmt, content |-> Opt(content),
                  reply |-> Opt(reply), sent |-> ~send_err,
                  result |-> IF send_err THEN "Err" ELSE "Ok"]

\* add_initial_member_roles(ctx, data, new_member); api_err: add_roles fails
add_initial_member_roles(one, db_err, api_err) ==
    LET roles == get_member_roles_on_join(one, db_err)
    IN  IF roles.some
        THEN [requested |-> roles, result |-> IF api_err THEN "Err" ELSE "Ok"]
        ELSE [requested |-> OptNone, result |-> "Ok"]

\* no member event handled yet
NoEvent == [kind |-> "none"]

\* the members and users of the events: with or without an avatar, and one
\* whose user name is itself the text of a placeholder
Members ==
    {[name |-> <<"N">>, mention |-> <<"@">>, avatar |-> av] : av \in {Opt(<<"v">>), OptNone}}
    \cup {[name |-> <<"{name}">>, mention |-> <<"@">>, avatar |-> Opt(<<"v">>)]}

\* the text fields and the media fields a notification renders
RenderedTexts == {"content", "description", "author", "footer"}
RenderedMedia == {"thumbnail", "author_icon", "footer_icon"}

\* stored texts of the event model: plain text and text that references
\* placeholders
RenderTemplates ==
    {<<"W">>, <<"H", "{name}">>, <<"{mention}", "!">>, <<"M", "{member_count}">>}
RenderTexts ==
    {[f \in TextFields |-> IF f \in S THEN tpl ELSE EmptyString] :
        tpl \in RenderTemplates,
        S \in {{}, RenderedTexts, {"content"}, {"description"}, {"author"}}}
\* stored media: any thumbnail; the two icons both empty, both files (of
\* uploads with the extensions above), or a file and a URL
RenderMediaKinds ==
    {k \in [MediaFields -> {"empty", "url", "file", "avatar", "file_named", "file_brace"}] :
        /\ k["image"] = "empty"
        /\ k["thumbnail"] \in {"empty", "url", "file", "avatar"}
        /\ <<k["author_icon"], k["footer_icon"]>> \in
                {<<"empty", "empty">>, <<"file_named", "file_brace">>, <<"url", "file">>,
                 <<"file", "url">>}}

\* the stores of the event model: one record, of either event type, or a
\* text-only record of each event type
RenderStores ==
    {{StoredRow(key, t, k)} :
        key \in {JoinKey, LeaveKey}, t \in RenderTexts, k \in RenderMediaKinds}
    \cup {{StoredRow(JoinKey, [f \in TextFields |-> IF f = "content" THEN <<"W">> ELSE EmptyString],
                     [m \in MediaFields |-> "empty"]),
           StoredRow(LeaveKey, [f \in TextFields |-> IF f = "content" THEN <<"H", "{name}">> ELSE EmptyString],
                     [m \in MediaFields |-> "empty"])}}

ChannelRow(key, id) == [guild_id |-> key[1], join |-> key[2], channel_id |-> id]
RoleRow(guild_id, id) == [guild_id |-> guild_id, role_id |-> id]

\* the channel and default-role configurations of the event model
RenderSettings ==
    {[channels |-> {}, welcome_roles |-> {}],
     [channels |-> {ChannelRow(JoinKey, "c1")},
      welcome_roles |-> {RoleRow("g1", "r1"), RoleRow("g1", "r2")}],
     [channels |-> {ChannelRow(JoinKey, "c1"), ChannelRow(LeaveKey, "c2")},
      welcome_roles |-> {RoleRow("g1", "r1"), RoleRow("g1", "r2")}]}

\* the failures the environment may inject into one member event
EventFaults == {"none", "channel", "details", "send", "roles", "add_roles"}

\* ------------------------------------------------------------------- state
VARIABLES
    db,       \* rows of member_notification_message
    fs,       \* paths of the files on disk
    uuid,     \* number of UUIDs drawn so far
    started,  \* number of configure invocations started so far
    mode,     \* which inputs the environment offers (fixed by Init)
    pc,       \* position of each configure invocation
    loc,      \* locals of each configure invocation
    hist,     \* per invocation: what it has done so far (observation only)
    channels,       \* rows of member_notification_channel
    welcome_roles,  \* rows of welcome_roles
    last,           \* the event or command handled last and what it produced
    mc_server,      \* rows of mc_server
    shutdown        \* run_until_shutdown: its position, its futures, its result

cfgVars == <<db, fs, uuid, started, mode, pc, loc, hist>>
evVars == <<channels, welcome_roles, last, mc_server, shutdown>>
vars == <<db, fs, uuid, started, mode, pc, loc, hist, channels, welcome_roles, last, mc_server, shutdown>>

\* locals of configure_member_notifications_impl before it has run
IdleLoc ==
    [key |-> <<"g1", TRUE>>, raw |-> NoRaw, request |-> DefaultRequest,
     model |-> new_active_model(<<"g1", TRUE>>), update |-> FALSE,
     files_to_delete |-> <<>>, files_added |-> <<>>, i |-> 1, errors |-> <<>>,
     format |-> OptNone, reply |-> OptNone, result |-> "none", errAt |-> "none"]

IdleHist ==
    [row0 |-> OptNone, written |-> {}, removed |-> {}, attempted |-> <<>>,
     fault |-> FALSE, issued |-> FALSE, db_fault |-> FALSE, persisted |-> FALSE,
     stored |-> OptNone, seq |-> 0]

\* run_until_shutdown awaits its select!: neither the termination signal nor
\* the client future has completed, cleanup has not been called
Running ==
    [pc |-> "select", ctrl_c |-> "pending", sigterm |-> "pending",
     client |-> "pending", branch |-> "none", branch_result |-> "none",
     cleanup_calls |-> 0, cleanup |-> "none", result |-> "none"]

\* the models in which invocations run one after the other, without faults
SequentialModes == {"merge", "twice"}

\* the I/O faults the environment may inject
FaultChoices == IF mode \in SequentialModes THEN {FALSE} ELSE BOOLEAN

Commands ==
    CASE mode = "merge" -> MergeCommands
      [] mode = "twice" -> ClearCommands
      [] mode = "preview" -> PreviewCommands
      [] mode = "race" -> RaceCommands
      [] OTHER -> ConcurrentCommands

InvocationLimit ==
    CASE mode \in {"merge", "preview"} -> 1
      [] mode = "twice" -> 2
      [] OTHER -> MaxInvocations

\* the invoking administrator, as the preview sees them
Author == [name |-> <<"N">>, mention |-> <<"@">>, avatar |-> Opt(<<"v">>)]
Counts == [approximate_member_count |-> Opt(<<"7">>),
           approximate_presence_count |-> Opt(<<"3">>)]
\* to_partial_guild_with_counts(ctx).ok()
GuildLookups == IF mode \in SequentialModes THEN {Opt(Counts)} ELSE {Opt(Counts), OptNone}

Fail(l, at) == [l EXCEPT !.result = "Err", !.errAt = at]

\* ----------------------------------------------------------------- actions
NextPc(m) ==
    CASE m = "thumbnail" -> "image"
      [] m = "image" -> "author_icon"
      [] m = "author_icon" -> "footer_icon"
      [] m = "footer_icon" -> "persist"

\* variant: the error of a download is not propagated
AfterResolve_continue(ok, m) == NextPc(m)

\* get_url_and_create_attachment(..).await? : an error leaves the function
AfterResolve(ok, m) == IF ok THEN NextPc(m) ELSE "done"

\* the block of media field m once get_url_and_create_attachment returned r,
\* preceded by the text assignments that stand before it
MediaBlock(l, m, r) ==
    LET model1 == ApplyTexts(l.model, TextsBefore(m), l.request)
    IN  [l EXCEPT
            !.files_to_delete = PushOrphan(model1, l.files_to_delete, m, l.request[m]),
            !.files_added = r.files_added,
            !.model = ApplyMedia(model1, m, l.request[m], r.val)]

\* the code from media field m on, up to the next point where it awaits a
\* download (an uploaded file) or the store (persist)
RECURSIVE RunToAwait(_, _)
RunToAwait(l, m) ==
    IF m = "persist" THEN [loc |-> l, pc |-> m]
    ELSE LET x == OptionalClearable_into(l.request[m], EmbedAttachment_default)
         IN  IF x.some /\ is_file(x.val) THEN [loc |-> l, pc |-> m]
             ELSE RunToAwait(
                    MediaBlock(l, m,
                        IF x.some
                        THEN get_url_and_create_attachment({}, l.key[1], x.val,
                                 l.files_added, 0, "Ok", FALSE)
                        ELSE [ok |-> TRUE, val |-> EmptyString, files |-> {},
                              files_added |-> l.files_added]),
                    NextPc(m))

\* a command handler calls configure_member_notifications_impl:
\* ctx.defer_ephemeral().await?, find_by_id(..).one(db).await?, the
\* (model, update) pair, and the code up to the first download or persist
Start(p) ==
    /\ pc[p] = "idle"
    /\ started < InvocationLimit
    /\ \E cmd \in Commands, defer_err \in FaultChoices, db_err \in FaultChoices :
         LET l == [IdleLoc EXCEPT !.key = cmd.key, !.raw = cmd.raw,
                                  !.request = cmd.request]
         IN  /\ defer_err => ~db_err
             /\ IF defer_err \/ db_err
                THEN /\ loc' = [loc EXCEPT ![p] = Fail(l, IF defer_err THEN "defer" ELSE "load")]
                     /\ pc' = [pc EXCEPT ![p] = "done"]
                ELSE LET am == ActiveModelFor(find_by_id(db, l.key), l.key)
                         run == RunToAwait([l EXCEPT !.model = am.model,
                                                     !.update = am.update], "thumbnail")
                     IN  /\ loc' = [loc EXCEPT ![p] = run.loc]
                         /\ pc' = [pc EXCEPT ![p] = run.pc]
    /\ hist' = [hist EXCEPT ![p] =
            [IdleHist EXCEPT !.row0 = find_by_id(db, loc'[p].key),
                             !.seq = IF mode = "race" THEN started + 1 ELSE 0]]
    /\ started' = started + 1
    /\ UNCHANGED <<db, fs, uuid, mode>>
    /\ UNCHANGED evVars

\* the block of a media field m for which a file was uploaded: orphan check,
\* is_file flag, download by create_file_from_attachment_safe
Resolve(p, m) ==
    /\ pc[p] = m
    /\ LET l == loc[p]
           x == OptionalClearable_into(l.request[m], EmbedAttachment_default)
       IN  \E outcome \in CreateOutcomes, fault \in FaultChoices :
                /\ outcome # "Ok" => mode \notin SequentialModes
                /\ fault => outcome # "Ok"
                /\ FileCreated(outcome) => uuid < MaxUuid
                /\ LET r == get_url_and_create_attachment(fs, l.key[1], x.val,
                                l.files_added, uuid + 1, outcome, fault)
                       made == IF FileCreated(outcome)
                               THEN {random_filename(uuid + 1, x.val.att)} ELSE {}
                       madePaths == {GuildPath(l.key[1], n) : n \in made}
                       next == AfterResolve(r.ok, m)
                       l2 == IF r.ok THEN MediaBlock(l, m, r)
                             ELSE Fail(MediaBlock(l, m, r), "media")
                       run == IF next = "done" THEN [loc |-> l2, pc |-> next]
                              ELSE RunToAwait(l2, next)
                   IN  /\ fs' = r.files
                       /\ uuid' = uuid + Cardinality(made)
                       /\ pc' = [pc EXCEPT ![p] = run.pc]
                       /\ loc' = [loc EXCEPT ![p] = run.loc]
                       /\ hist' = [hist EXCEPT
                             ![p].written = @ \cup made,
                             ![p].removed = @ \cup ((fs \cup madePaths) \ r.files),
                             ![p].fault = @ \/ fault]
    /\ UNCHANGED <<db, started, mode>>
    /\ UNCHANGED evVars

\* model.update(db).await? or Entity::insert(model).exec(db).await?
persist(rows, model, update, db_err) ==
    IF update
    THEN IF db_err \/ RowsWithKey(rows, ModelKey(model)) = {}
         THEN [ok |-> FALSE, rows |-> rows]
         ELSE [ok |-> TRUE, rows |-> update_exec(rows, model)]
    ELSE IF db_err \/ insert_violates_primary_key(rows, model)
         THEN [ok |-> FALSE, rows |-> rows]
         ELSE [ok |-> TRUE, rows |-> insert_exec(rows, model)]

Persist(p) ==
    /\ pc[p] = "persist"
    /\ \E db_err \in FaultChoices :
         LET l == loc[p]
             r == persist(db, l.model, l.update, db_err)
         IN  /\ db_err => persist(db, l.model, l.update, FALSE).ok
             /\ db' = r.rows
             /\ loc' = [loc EXCEPT ![p] = IF r.ok THEN l ELSE Fail(l, "persist")]
             /\ pc' = [pc EXCEPT ![p] =
                   IF ~r.ok THEN "done"
                   ELSE IF Len(l.files_to_delete) = 0 THEN "details" ELSE "cleanup"]
             /\ hist' = [hist EXCEPT ![p].issued = TRUE, ![p].db_fault = db_err,
                                     ![p].persisted = r.ok,
                                     ![p].stored = IF r.ok THEN find_by_id(r.rows, l.key) ELSE @]
    /\ UNCHANGED <<fs, uuid, started, mode>>
    /\ UNCHANGED evVars

\* variant: the loop is left at the first deletion that fails
CleanupNext_break(l, ok) ==
    IF l.i = Len(l.files_to_delete) \/ ~ok THEN "details" ELSE "cleanup"

\* where the loop over files_to_delete goes after one iteration
CleanupNext(l, ok) ==
    IF l.i = Len(l.files_to_delete) THEN "details" ELSE "cleanup"

\* variant: a deletion that fails takes the stored record back
Cleanup_reverting(p) ==
    /\ pc[p] = "cleanup"
    /\ \E fault \in FaultChoices :
         LET l == loc[p]
             file == l.files_to_delete[l.i]
             path == GuildPath(l.key[1], file)
             ok == remove_file_ok(fs, path, fault)
         IN  /\ fs' = remove_file(fs, path, fault)
             /\ db' = IF ok THEN db ELSE db \ RowsWithKey(db, l.key)
             /\ loc' = [loc EXCEPT ![p].i = @ + 1,
                                   ![p].errors = IF ok THEN @ ELSE Append(@, file)]
             /\ pc' = [pc EXCEPT ![p] = CleanupNext(l, ok)]
             /\ hist' = [hist EXCEPT ![p].attempted = Append(@, file),
                                     ![p].removed = @ \cup (fs \ fs'),
                                     ![p].fault = @ \/ fault]
    /\ UNCHANGED <<uuid, started, mode>>
    /\ UNCHANGED evVars

\* one iteration of `for file in files_to_delete`
Cleanup(p) ==
    /\ pc[p] = "cleanup"
    /\ \E fault \in FaultChoices :
         LET l == loc[p]
             file == l.files_to_delete[l.i]
             path == GuildPath(l.key[1], file)
             ok == remove_file_ok(fs, path, fault)
         IN  /\ fs' = remove_file(fs, path, fault)
             /\ loc' = [loc EXCEPT ![p].i = @ + 1,
                                   ![p].errors = IF ok THEN @ ELSE Append(@, file)]
             /\ pc' = [pc EXCEPT ![p] = CleanupNext(l, ok)]
             /\ hist' = [hist EXCEPT ![p].attempted = Append(@, file),
                                     ![p].removed = @ \cup (fs \ fs'),
                                     ![p].fault = @ \/ fault]
    /\ UNCHANGED <<db, uuid, started, mode>>
    /\ UNCHANGED evVars

\* get_member_notification_details(db, guild_id, is_join).await and the
\* first ctx.send(..).await? of either match arm
Details(p) ==
    /\ pc[p] = "details"
    /\ \E db_err \in FaultChoices, send_err \in FaultChoices :
         LET fmt == get_member_notification_details(db, loc[p].key, db_err)
             l == [loc[p] EXCEPT !.format = fmt]
         IN  IF send_err
             THEN /\ loc' = [loc EXCEPT ![p] = Fail(l, "send")]
                  /\ pc' = [pc EXCEPT ![p] = "done"]
             ELSE IF fmt.some
             THEN /\ loc' = [loc EXCEPT ![p] = l]
                  /\ pc' = [pc EXCEPT ![p] = "preview"]
             ELSE /\ loc' = [loc EXCEPT ![p] = [l EXCEPT !.result = "Ok"]]
                  /\ pc' = [pc EXCEPT ![p] = "done"]
    /\ UNCHANGED <<db, fs, uuid, started, mode, hist>>
    /\ UNCHANGED evVars

\* the sample: guild counts, author_member, for_user / for_member,
\* to_reply and the second ctx.send(reply).await?
PreviewDetails(is_join, member, guild, fmt) ==
    IF ~is_join THEN for_user(Author, guild, fmt)
    ELSE IF member.some THEN for_member(member.val, guild, fmt)
    ELSE for_user(Author, guild, fmt)

\* variant: a failed lookup of the guild counts ends the invocation
Preview_failing(p) ==
    /\ pc[p] = "preview"
    /\ \E guild \in GuildLookups, has_member \in FaultChoices, send_err \in FaultChoices :
         LET l == loc[p]
             member == IF has_member THEN Opt(Author) ELSE OptNone
             details == PreviewDetails(l.key[2], member, guild, l.format.val)
             reply == to_message(details, l.key[1], fs)
         IN  loc' = [loc EXCEPT ![p] =
                 IF ~guild.some THEN Fail(l, "guild")
                 ELSE IF send_err THEN Fail([l EXCEPT !.reply = Opt(reply)], "send")
                 ELSE [l EXCEPT !.reply = Opt(reply), !.result = "Ok"]]
    /\ pc' = [pc EXCEPT ![p] = "done"]
    /\ UNCHANGED <<db, fs, uuid, started, mode, hist>>
    /\ UNCHANGED evVars

Preview(p) ==
    /\ pc[p] = "preview"
    /\ \E guild \in GuildLookups, has_member \in FaultChoices, send_err \in FaultChoices :
         LET l == loc[p]
             member == IF has_member THEN Opt(Author) ELSE OptNone
             details == PreviewDetails(l.key[2], member, guild, l.format.val)
             reply == to_message(details, l.key[1], fs)
         IN  loc' = [loc EXCEPT ![p] =
                 IF send_err THEN Fail([l EXCEPT !.reply = Opt(reply)], "send")
                 ELSE [l EXCEPT !.reply = Opt(reply), !.result = "Ok"]]
    /\ pc' = [pc EXCEPT ![p] = "done"]
    /\ UNCHANGED <<db, fs, uuid, started, mode, hist>>
    /\ UNCHANGED evVars

\* the handler has returned; the task may serve another command
Finish(p) ==
    /\ pc[p] = "done"
    /\ started < InvocationLimit
    /\ pc' = [pc EXCEPT ![p] = "idle"]
    /\ loc' = [loc EXCEPT ![p] = IdleLoc]
    /\ hist' = [hist EXCEPT ![p] = IdleHist]
    /\ UNCHANGED <<db, fs, uuid, started, mode>>
    /\ UNCHANGED evVars

Init ==
    /\ db = {}
    /\ fs = {}
    /\ uuid = 0
    /\ started = 0
    /\ mode = "concurrent"
    /\ pc = [p \in Procs |-> "idle"]
    /\ loc = [p \in Procs |-> IdleLoc]
    /\ hist = [p \in Procs |-> IdleHist]
    /\ channels = {}
    /\ welcome_roles = {}
    /\ last = NoEvent
    /\ mc_server = {}
    /\ shutdown = Running

Next ==
    \E p \in Procs :
        \/ Start(p)
        \/ \E m \in MediaFields : Resolve(p, m)
        \/ Persist(p)
        \/ Cleanup(p)
        \/ Details(p)
        \/ Preview(p)
        \/ Finish(p)

Spec == Init /\ [][Next]_vars

\* the concurrent model over a configured guild: the invocations of Spec,
\* on a store that holds records and the files they reference
InitRace ==
    /\ db \in RaceStores
    /\ fs = StoreFiles(db)
    /\ uuid = 0
    /\ started = 0
    /\ mode = "race"
    /\ pc = [p \in Procs |-> "idle"]
    /\ loc = [p \in Procs |-> IdleLoc]
    /\ hist = [p \in Procs |-> IdleHist]
    /\ channels = {}
    /\ welcome_roles = {}
    /\ last = NoEvent
    /\ mc_server = {}
    /\ shutdown = Running

SpecRace == InitRace /\ [][Next]_vars

\* the sequential model: one configure invocation, without faults, on a
\* store that holds no record or one record of the key
InitMerge ==
    /\ db \in MergeStores
    /\ fs = StoreFiles(db)
    /\ uuid = 0
    /\ started = 0
    /\ mode = "merge"
    /\ pc = [p \in Procs |-> "idle"]
    /\ loc = [p \in Procs |-> IdleLoc]
    /\ hist = [p \in Procs |-> IdleHist]
    /\ channels = {}
    /\ welcome_roles = {}
    /\ last = NoEvent
    /\ mc_server = {}
    /\ shutdown = Running

NextMerge ==
    \/ Start("A")
    \/ \E m \in MediaFields : Resolve("A", m)
    \/ Persist("A")
    \/ Cleanup("A")
    \/ Details("A")
    \/ Preview("A")

SpecMerge == InitMerge /\ [][NextMerge]_vars

\* the repeated model: a command that supplies no value runs to its end on
\* a store that holds no record or one record, and is then issued again
Again ==
    /\ pc["A"] = "done"
    /\ Start("B")
    /\ loc'["B"].key = loc["A"].key
    /\ loc'["B"].raw = loc["A"].raw

InitTwice ==
    /\ db \in MergeStores
    /\ fs = StoreFiles(db)
    /\ uuid = 0
    /\ started = 0
    /\ mode = "twice"
    /\ pc = [p \in Procs |-> "idle"]
    /\ loc = [p \in Procs |-> IdleLoc]
    /\ hist = [p \in Procs |-> IdleHist]
    /\ channels = {}
    /\ welcome_roles = {}
    /\ last = NoEvent
    /\ mc_server = {}
    /\ shutdown = Running

NextTwice ==
    \/ Start("A")
    \/ Again
    \/ \E p \in Procs : Persist(p)
    \/ \E p \in Procs : Cleanup(p)
    \/ \E p \in Procs : Details(p)
    \/ \E p \in Procs : Preview(p)

SpecTwice == InitTwice /\ [][NextTwice]_vars

\* the preview model: one configure invocation with every fault the
\* environment may inject, on a store whose local files may be missing
InitPreview ==
    /\ db \in PreviewStores
    /\ fs \in SUBSET StoreFiles(db)
    /\ uuid = 0
    /\ started = 0
    /\ mode = "preview"
    /\ pc = [p \in Procs |-> "idle"]
    /\ loc = [p \in Procs |-> IdleLoc]
    /\ hist = [p \in Procs |-> IdleHist]
    /\ channels = {}
    /\ welcome_roles = {}
    /\ last = NoEvent
    /\ mc_server = {}
    /\ shutdown = Running

NextPreview ==
    \/ Start("A")
    \/ Persist("A")
    \/ Cleanup("A")
    \/ Details("A")
    \/ Preview("A")

SpecPreview == InitPreview /\ [][NextPreview]_vars

\* ------------------------------------------------------- member event model
\* guild_member_add(ctx, data, new_member): the notification, then the
\* default roles; both errors are logged and the handler returns Ok.  The
\* handlers write nothing but messages, so a behaviour observes one event.
guild_member_add ==
    /\ mode \in {"events", "roles"}
    /\ mode = "events" => last = NoEvent
    /\ \E g \in Guilds, member \in Members, guild \in GuildLookups,
          fault \in EventFaults :
         \E one \in one_row(welcome_roles, g) :
            last' = [kind |-> "join", key |-> <<g, TRUE>>, fault |-> fault,
                     args |-> for_member_args(member, guild),
                     notify |-> notify_member_event(db, channels, fs,
                                    Join(g, member), guild, fault = "channel",
                                    fault = "details", fault = "send"),
                     roles |-> add_initial_member_roles(one, fault = "roles",
                                    fault = "add_roles"),
                     result |-> "Ok"]
    /\ UNCHANGED <<cfgVars, channels, welcome_roles>>
    /\ UNCHANGED <<mc_server, shutdown>>

\* guild_member_remove(ctx, data, guild_id, user): the notification only
guild_member_remove ==
    /\ mode = "events"
    /\ last = NoEvent
    /\ \E g \in Guilds, user \in Members, guild \in GuildLookups,
          fault \in EventFaults \ {"roles", "add_roles"} :
            last' = [kind |-> "leave", key |-> <<g, FALSE>>, fault |-> fault,
                     args |-> for_user_args(user, guild),
                     notify |-> notify_member_event(db, channels, fs,
                                    Leave(g, user), guild, fault = "channel",
                                    fault = "details", fault = "send"),
                     roles |-> [requested |-> OptNone, result |-> "Ok"],
                     result |-> "Ok"]
    /\ UNCHANGED <<cfgVars, channels, welcome_roles>>
    /\ UNCHANGED <<mc_server, shutdown>>

\* a configured guild: one record, any of its local files present or
\* missing, channels and default roles configured or not
InitEvents ==
    /\ db \in RenderStores
    /\ fs \in SUBSET StoreFiles(db)
    /\ uuid = 0
    /\ started = 0
    /\ mode = "events"
    /\ pc = [p \in Procs |-> "idle"]
    /\ loc = [p \in Procs |-> IdleLoc]
    /\ hist = [p \in Procs |-> IdleHist]
    /\ \E st \in RenderSettings :
         /\ channels = st.channels
         /\ welcome_roles = st.welcome_roles
    /\ last = NoEvent
    /\ mc_server = {}
    /\ shutdown = Running

NextEvents ==
    \/ guild_member_add
    \/ guild_member_remove

SpecEvents == InitEvents /\ [][NextEvents]_vars

\* ------------------------------------------------------- default role model
\* the roles of the guild as guild_id.roles(ctx) reports them
GuildRoles ==
    {[id |-> "r1", name |-> "admin"], [id |-> "r2", name |-> "member"],
     [id |-> "r3", name |-> "guest"]}

\* the failures the environment may inject into one role command
RoleFaults == {"none", "api", "db", "send"}

\* add_default_member_role(ctx, role): the insert (rejected by the primary
\* key (guild_id, role_id) for a role that is configured already), then the
\* reply
add_default_member_role ==
    /\ mode = "roles"
    /\ \E g \in Guilds, role \in {r.id : r \in GuildRoles},
          fault \in RoleFaults \ {"api"} :
         LET row == RoleRow(g, role)
             inserted == fault # "db" /\ row \notin welcome_roles
         IN  /\ welcome_roles' = IF inserted THEN welcome_roles \cup {row}
                                 ELSE welcome_roles
             /\ last' = [kind |-> "add_default_member_role", key |-> <<g, role>>,
                         fault |-> fault,
                         result |-> IF inserted /\ fault # "send" THEN "Ok" ELSE "Err"]
    /\ UNCHANGED <<cfgVars, channels>>
    /\ UNCHANGED <<mc_server, shutdown>>

\* remove_default_member_role(ctx, role): the guild's roles are searched
\* for one of that name, its row is deleted, then the reply
remove_default_member_role ==
    /\ mode = "roles"
    /\ \E g \in Guilds, role \in {r.name : r \in GuildRoles} \cup {"nobody"},
          fault \in RoleFaults :
         LET found == {r \in GuildRoles : r.name = role}
             deleted == fault \notin {"api", "db"} /\ found # {}
         IN  /\ welcome_roles' =
                    IF deleted
                    THEN welcome_roles \ {RoleRow(g, r.id) : r \in found}
                    ELSE welcome_roles
             /\ last' = [kind |-> "remove_default_member_role", key |-> <<g, role>>,
                         fault |-> fault,
                         result |-> IF fault = "api" THEN "Err"
                                    ELSE IF found # {} /\ fault = "db" THEN "Err"
                                    ELSE IF fault = "send" THEN "Err"
                                    ELSE "Ok"]
    /\ UNCHANGED <<cfgVars, channels>>
    /\ UNCHANGED <<mc_server, shutdown>>

\* a guild without notification records or channels and without default
\* roles
InitRoles ==
    /\ db = {}
    /\ fs = {}
    /\ uuid = 0
    /\ started = 0
    /\ mode = "roles"
    /\ pc = [p \in Procs |-> "idle"]
    /\ loc = [p \in Procs |-> IdleLoc]
    /\ hist = [p \in Procs |-> IdleHist]
    /\ channels = {}
    /\ welcome_roles = {}
    /\ last = NoEvent
    /\ mc_server = {}
    /\ shutdown = Running

NextRoles ==
    \/ add_default_member_role
    \/ remove_default_member_role
    \/ guild_member_add

SpecRoles == InitRoles /\ [][NextRoles]_vars

\* ---------------------------------------------------------- minecraft model
\* u16::MAX
U16Max == 65535

\* Option::unwrap_or
unwrap_or(opt, default) == IF opt.some THEN opt.val ELSE default

\* mc_server::Entity::find_by_id((guild_id, name)).one(db)
mc_find_by_id(rows, guild_id, name) ==
    LET found == {r \in rows : r.guild_id = guild_id /\ r.name = name}
    IN  IF found = {} THEN OptNone ELSE Opt(CHOOSE r \in found : TRUE)

\* get_mcserver(ctx, name): Err on a query error, else the server if any
get_mcserver(rows, guild_id, name, db_err) ==
    LET found == mc_find_by_id(rows, guild_id, name)
    IN  IF db_err THEN [ok |-> FALSE, val |-> OptNone]
        ELSE IF ~found.some THEN [ok |-> TRUE, val |-> OptNone]
        ELSE LET value == found.val
             IN  [ok |-> TRUE,
                  val |-> Opt([address |-> value.address,
                               port |-> IF value.port > 0 /\ value.port < U16Max
                                        THEN Opt(value.port) ELSE OptNone,
                               version |-> optional_string(value.version),
                               modpack |-> optional_string(value.modpack),
                               custom_description |-> optional_string(value.custom_description),
                               instructions |-> optional_string(value.instructions),
                               thumbnail |-> optional_string(value.thumbnail)])]

\* what a command handler returned, and the reply it sent if any
McOk(reply) == [ok |-> TRUE, text |-> reply]
McErr(error) == [ok |-> FALSE, text |-> error]

\* the failures the environment may inject into one mc command
McFaults == {"none", "find", "exec", "send"}

\* the arguments the administrators pass
McNames == {"alpha", "beta"}
McAddresses == {<<"h", "1">>, <<"h", "2">>}
McPorts == {OptNone, Opt(0), Opt(25565)}
McTexts == {OptNone, Opt(<<"1">>)}

\* remove(ctx, name): get_mcserver, the early return, delete_by_id, the reply
mc_remove(rows, guild_id, name, fault) ==
    LET srv_match == get_mcserver(rows, guild_id, name, fault = "find")
    IN  IF ~srv_match.ok THEN [rows |-> rows, result |-> McErr("find")]
        ELSE IF srv_match.val.some
        THEN [rows |-> rows, result |-> McErr("Server already exists.")]
        ELSE IF fault = "exec" THEN [rows |-> rows, result |-> McErr("exec")]
        ELSE [rows |-> {r \in rows : ~(r.guild_id = guild_id /\ r.name = name)},
              result |-> IF fault = "send" THEN McErr("send")
                         ELSE McOk("Successfully removed server")]

\* add(ctx, name, address, port, version, ..): get_mcserver, the early
\* return, the insert with unwrap_or defaults, the reply
mc_add(rows, guild_id, name, address, port, version, modpack, custom_description, instructions, thumbnail, fault) ==
    LET srv_match == get_mcserver(rows, guild_id, name, fault = "find")
        row == [guild_id |-> guild_id, name |-> name, address |-> address,
                port |-> unwrap_or(port, 0),
                version |-> unwrap_or(version, EmptyString),
                modpack |-> unwrap_or(modpack, EmptyString),
                custom_description |-> unwrap_or(custom_description, EmptyString),
                instructions |-> unwrap_or(instructions, EmptyString),
                thumbnail |-> unwrap_or(thumbnail, EmptyString)]
    IN  IF ~srv_match.ok THEN [rows |-> rows, result |-> McErr("find")]
        ELSE IF srv_match.val.some
        THEN [rows |-> rows, result |-> McErr("Server already exists.")]
        ELSE IF fault = "exec" THEN [rows |-> rows, result |-> McErr("exec")]
        ELSE [rows |-> rows \cup {row},
              result |-> IF fault = "send" THEN McErr("send")
                         ELSE McOk("Successfully added server")]

\* apply_clear(value, clear) of update
apply_clear(value, clear) ==
    IF unwrap_or(clear, FALSE) THEN Opt(EmptyString) ELSE value

\* update(ctx, name, address, port, version, clear_version, ..): the two
\* early returns, the ActiveModel with the supplied columns Set, the
\* update of the row with that primary key, the reply
mc_update(rows, guild_id, name, address, port, version, clear_version, fault) ==
    LET srv_match == get_mcserver(rows, guild_id, name, fault = "find")
        port_value == IF port.some /\ port.val > 0 THEN port ELSE OptNone
        version2 == apply_clear(version, clear_version)
        updated(r) == [r EXCEPT !.address = unwrap_or(address, @),
                                !.port = unwrap_or(port_value, @),
                                !.version = unwrap_or(version2, @)]
    IN  IF ~srv_match.ok THEN [rows |-> rows, result |-> McErr("find")]
        ELSE IF ~srv_match.val.some
        THEN [rows |-> rows, result |-> McErr("Server does not exist.")]
        ELSE IF ~address.some /\ ~port.some /\ ~version.some /\ ~clear_version.some
        THEN [rows |-> rows, result |-> McErr("At least one parameter must be updated.")]
        ELSE IF fault = "exec" THEN [rows |-> rows, result |-> McErr("exec")]
        ELSE [rows |-> {IF r.guild_id = guild_id /\ r.name = name THEN updated(r) ELSE r :
                            r \in rows},
              result |-> IF fault = "send" THEN McErr("send")
                         ELSE McOk("Successfully updated server")]

\* `mc add`
add ==
    /\ mode = "minecraft"
    /\ \E g \in Guilds, name \in McNames, address \in McAddresses, port \in McPorts,
          version \in McTexts, fault \in McFaults :
         LET r == mc_add(mc_server, g, name, address, port, version, OptNone,
                         OptNone, OptNone, OptNone, fault)
         IN  /\ mc_server' = r.rows
             /\ last' = [kind |-> "mc add", key |-> <<g, name>>, fault |-> fault,
                         result |-> r.result]
    /\ UNCHANGED <<cfgVars, channels, welcome_roles, shutdown>>

\* `mc update`
update ==
    /\ mode = "minecraft"
    /\ \E g \in Guilds, name \in McNames, address \in {OptNone} \cup {Opt(a) : a \in McAddresses},
          port \in McPorts, version \in McTexts, clear_version \in {OptNone, Opt(TRUE)},
          fault \in McFaults :
         LET r == mc_update(mc_server, g, name, address, port, version,
                            clear_version, fault)
         IN  /\ mc_server' = r.rows
             /\ last' = [kind |-> "mc update", key |-> <<g, name>>, fault |-> fault,
                         result |-> r.result]
    /\ UNCHANGED <<cfgVars, channels, welcome_roles, shutdown>>

\* `mc remove`
remove ==
    /\ mode = "minecraft"
    /\ \E g \in Guilds, name \in McNames, fault \in McFaults :
         LET r == mc_remove(mc_server, g, name, fault)
         IN  /\ mc_server' = r.rows
             /\ last' = [kind |-> "mc remove", key |-> <<g, name>>, fault |-> fault,
                         result |-> r.result]
    /\ UNCHANGED <<cfgVars, channels, welcome_roles, shutdown>>

\* a guild with no Minecraft server registered
InitMinecraft ==
    /\ db = {}
    /\ fs = {}
    /\ uuid = 0
    /\ started = 0
    /\ mode = "minecraft"
    /\ pc = [p \in Procs |-> "idle"]
    /\ loc = [p \in Procs |-> IdleLoc]
    /\ hist = [p \in Procs |-> IdleHist]
    /\ channels = {}
    /\ welcome_roles = {}
    /\ last = NoEvent
    /\ mc_server = {}
    /\ shutdown = Running

NextMinecraft ==
    \/ add
    \/ update
    \/ remove

SpecMinecraft == InitMinecraft /\ [][NextMinecraft]_vars

\* ----------------------------------------------------------- shutdown model
\* what ctrl_c() and sigterm(), the client future and cleanup() complete with
SignalCompletions == {"Ok", "io::Error"}
ClientCompletions == {"Ok", "serenity::Error"}
CleanupCompletions == {"Ok", "cleanup error"}

\* anyhow's Context::context on a Result: an error is wrapped with the text
ContextOf(result, text) ==
    IF result = "Ok" THEN [ok |-> TRUE]
    ELSE [ok |-> FALSE, error |-> text, source |-> result]

\* the text each branch of the select! attaches to an error of its future
BranchContext(branch) ==
    IF branch = "term" THEN "Recieved unexpected error from termination signal."
    ELSE "Bot event loop closed unexpectedly."

\* variant: the result of the branch is looked at before that of cleanup
run_until_shutdown_branch_first(cleanup_result, branch, branch_result) ==
    IF branch_result # "Ok"
    THEN ContextOf(branch_result, BranchContext(branch))
    ELSE IF cleanup_result # "Ok"
    THEN [ok |-> FALSE, error |-> cleanup_result, source |-> "none"]
    ELSE [ok |-> TRUE]

\* the handler of a branch once cleanup() has completed:
\* cleanup().await?; <branch>_result.context(..)?; and the final Ok(())
run_until_shutdown(cleanup_result, branch, branch_result) ==
    IF cleanup_result # "Ok"
    THEN [ok |-> FALSE, error |-> cleanup_result, source |-> "none"]
    ELSE IF branch_result # "Ok"
    THEN ContextOf(branch_result, BranchContext(branch))
    ELSE [ok |-> TRUE]

\* the results termination() may complete with: that of ctrl_c() or that of
\* sigterm(), whichever has completed (either when both have)
TerminationResults(s) ==
    {s.ctrl_c : x \in {1} \cap (IF s.ctrl_c # "pending" THEN {1} ELSE {})}
    \cup {s.sigterm : x \in {1} \cap (IF s.sigterm # "pending" THEN {1} ELSE {})}

\* the branches of the select! whose future has completed, with the result
ReadyBranches(s) ==
    {[branch |-> "term", result |-> r] : r \in TerminationResults(s)}
    \cup (IF s.client # "pending" THEN {[branch |-> "client", result |-> s.client]} ELSE {})

\* tokio::signal::ctrl_c() completes: Ctrl-C arrived, or listening failed
ctrl_c ==
    /\ mode = "shutdown"
    /\ shutdown.pc = "select" /\ shutdown.ctrl_c = "pending"
    /\ \E r \in SignalCompletions : shutdown' = [shutdown EXCEPT !.ctrl_c = r]
    /\ UNCHANGED <<cfgVars, channels, welcome_roles, last, mc_server>>

\* sigterm() completes: SIGTERM arrived (Ok), or signal(..)? failed
sigterm ==
    /\ mode = "shutdown"
    /\ shutdown.pc = "select" /\ shutdown.sigterm = "pending"
    /\ \E r \in SignalCompletions : shutdown' = [shutdown EXCEPT !.sigterm = r]
    /\ UNCHANGED <<cfgVars, channels, welcome_roles, last, mc_server>>

\* the client future completes
client_future ==
    /\ mode = "shutdown"
    /\ shutdown.pc = "select" /\ shutdown.client = "pending"
    /\ \E r \in ClientCompletions : shutdown' = [shutdown EXCEPT !.client = r]
    /\ UNCHANGED <<cfgVars, channels, welcome_roles, last, mc_server>>

\* tokio::select! takes one branch whose future has completed, drops the
\* other future, and the handler of the branch calls cleanup()
select ==
    /\ mode = "shutdown"
    /\ shutdown.pc = "select"
    /\ \E b \in ReadyBranches(shutdown) :
         shutdown' = [shutdown EXCEPT !.pc = "cleanup", !.branch = b.branch,
                                      !.branch_result = b.result,
                                      !.cleanup_calls = @ + 1,
                                      !.cleanup = "running"]
    /\ UNCHANGED <<cfgVars, channels, welcome_roles, last, mc_server>>

\* cleanup().await completes; the rest of the handler runs and the function
\* returns
cleanup ==
    /\ mode = "shutdown"
    /\ shutdown.pc = "cleanup"
    /\ \E r \in CleanupCompletions :
         shutdown' = [shutdown EXCEPT !.pc = "returned", !.cleanup = r,
                                      !.result = run_until_shutdown(r, shutdown.branch,
                                                     shutdown.branch_result)]
    /\ UNCHANGED <<cfgVars, channels, welcome_roles, last, mc_server>>

InitShutdown ==
    /\ db = {}
    /\ fs = {}
    /\ uuid = 0
    /\ started = 0
    /\ mode = "shutdown"
    /\ pc = [p \in Procs |-> "idle"]
    /\ loc = [p \in Procs |-> IdleLoc]
    /\ hist = [p \in Procs |-> IdleHist]
    /\ channels = {}
    /\ welcome_roles = {}
    /\ last = NoEvent
    /\ mc_server = {}
    /\ shutdown = Running

NextShutdown ==
    \/ ctrl_c
    \/ sigterm
    \/ client_future
    \/ select
    \/ cleanup

SpecShutdown == InitShutdown /\ [][NextShutdown]_vars

\* ------------------------------------------------------------- properties
\* the guild-directory paths of the local files a row references
LocalFilesOf(row) ==
    {GuildPath(row["guild_id"], row[UrlCol(m)]) : m \in {x \in MediaFields : row[IsFileCol(x)]}}

ReferencedBy(orow) == IF orow.some THEN LocalFilesOf(orow.val) ELSE {}

\* the guild-directory paths of the files an invocation wrote
WrittenPaths(p) == {GuildPath(loc[p].key[1], n) : n \in hist[p].written}

\* the step is taken by invocation p
StepOf(p) == pc'[p] # pc[p] \/ loc'[p] # loc[p]

\* C1: when a configure invocation returns because resolving an upload
\* failed, and no remove_file call met an I/O fault, none of the files it
\* wrote (complete or partial) is left in the guild's storage directory.
RollbackRemovesWritten ==
    \A p \in Procs :
        (pc[p] = "done" /\ loc[p].errAt = "media" /\ ~hist[p].fault)
            => WrittenPaths(p) \cap fs = {}

\* C2: an invocation in which resolving a media field failed has returned
\* an error, has issued no insert or update, has stored nothing, and has
\* deleted no file that the record referenced when the invocation began.
MediaFailureLeavesState ==
    \A p \in Procs :
        loc[p].errAt = "media"
            => /\ pc[p] = "done"
               /\ loc[p].result = "Err"
               /\ ~hist[p].issued
               /\ ~hist[p].persisted
               /\ hist[p].stored = OptNone
               /\ hist[p].removed \cap ReferencedBy(hist[p].row0) = {}

\* a media failure of an invocation that began on a record holding local files
MediaFailureWitness ==
    \E p \in Procs :
        /\ loc[p].errAt = "media"
        /\ ReferencedBy(hist[p].row0) # {}
        /\ Len(loc[p].files_to_delete) > 0
        /\ hist[p].written # {}

\* C6: the store never holds two rows with the same (guild_id, join).
KeyUnique == \A r1, r2 \in db : RowKey(r1) = RowKey(r2) => r1 = r2

\* two first-time invocations on one key both reached the insert
ConcurrentInsertWitness ==
    \E p, q \in Procs :
        /\ p # q
        /\ loc[p].key = loc[q].key
        /\ ~loc[p].update /\ ~loc[q].update
        /\ hist[p].persisted
        /\ hist[q].issued /\ loc[q].errAt = "persist"

\* C7: once the persist step of an invocation has succeeded, no later step
\* of that invocation changes the store.
DurableAfterPersist ==
    [][\A p \in Procs :
          (hist[p].persisted /\ pc[p] \in {"cleanup", "details", "preview"} /\ StepOf(p))
              => db' = db]_vars

\* an invocation that persisted, then failed a deletion and failed to reply
DurableWitness ==
    \E p \in Procs :
        /\ hist[p].persisted
        /\ pc[p] = "done"
        /\ loc[p].errAt = "send"
        /\ Len(loc[p].errors) > 0
        /\ hist[p].stored = find_by_id(db, loc[p].key)

\* C8: no file referenced when the invocation began is deleted before its
\* persist step succeeded; once the loop over the orphan list is over, a
\* deletion was attempted for every entry of the list; and an iteration
\* whose deletion failed leaves the store alone and does not end the
\* invocation with an error.
OrphanCleanupAfterPersist ==
    /\ [](\A p \in Procs :
            /\ ~hist[p].persisted => hist[p].removed \cap ReferencedBy(hist[p].row0) = {}
            /\ (hist[p].persisted /\ pc[p] \in {"details", "preview", "done"})
                   => hist[p].attempted = loc[p].files_to_delete)
    /\ [][\A p \in Procs :
            (pc[p] = "cleanup" /\ Len(loc'[p].errors) > Len(loc[p].errors))
                => /\ db' = db
                   /\ loc'[p].errAt = "none"
                   /\ pc'[p] \in {"cleanup", "details"}]_vars

\* the first deletion failed and a later one removed its file
OrphanCleanupWitness ==
    \E p \in Procs :
        /\ pc[p] = "done" /\ loc[p].result = "Ok"
        /\ Len(loc[p].files_to_delete) >= 2
        /\ Len(loc[p].errors) > 0
        /\ loc[p].errors[1] = loc[p].files_to_delete[1]
        /\ GuildPath(loc[p].key[1], loc[p].files_to_delete[2]) \in hist[p].removed

\* number of entries of a list equal to x
Count(list, x) == Cardinality({i \in 1..Len(list) : list[i] = x})

\* the invocation has computed its whole list of files to delete
ListComplete(p) ==
    /\ pc[p] \in {"persist", "cleanup", "details", "preview", "done"}
    /\ loc[p].errAt \notin {"defer", "load", "media"}

PriorIsFile(p, m) == hist[p].row0.some /\ hist[p].row0.val[IsFileCol(m)]
PriorIsUrl(p, m) ==
    /\ hist[p].row0.some
    /\ ~hist[p].row0.val[IsFileCol(m)]
    /\ hist[p].row0.val[UrlCol(m)] # <<>>

\* the media fields whose prior local file the request orphans
Orphaned(p) ==
    {m \in MediaFields : PriorIsFile(p, m) /\ loc[p].request[m].tag # "None"}

\* C3: the list of files to delete holds the prior file name of a media
\* field once if the prior value was a local file and the field is cleared
\* or set, holds nothing for any other field, and holds nothing else.
OrphanListCorrect ==
    \A p \in Procs :
        ListComplete(p) =>
            /\ \A m \in MediaFields :
                 hist[p].row0.some =>
                    Count(loc[p].files_to_delete, hist[p].row0.val[UrlCol(m)])
                        = IF m \in Orphaned(p) THEN 1 ELSE 0
            /\ Len(loc[p].files_to_delete) = Cardinality(Orphaned(p))

\* one request replaces a local file (orphaned) and puts an upload where a
\* URL was (nothing orphaned)
OrphanListWitness ==
    \E p \in Procs : \E m1, m2 \in MediaFields :
        /\ hist[p].persisted
        /\ PriorIsFile(p, m1) /\ loc[p].request[m1].tag = "Some"
        /\ PriorIsUrl(p, m2) /\ loc[p].request[m2].tag = "Some"
        /\ is_file(loc[p].request[m2].val)
        /\ hist[p].stored.val[IsFileCol(m2)]
        /\ Count(loc[p].files_to_delete, hist[p].row0.val[UrlCol(m1)]) = 1

\* C4: a field the request leaves unset is stored as it was before (the
\* empty default when no record existed), its is-file flag included, and
\* its file is not put on the list of files to delete.
UnsetKeepsField ==
    \A p \in Procs :
        hist[p].persisted =>
            /\ \A f \in TextFields :
                 loc[p].request[f].tag = "None" =>
                    hist[p].stored.val[f] =
                        IF hist[p].row0.some THEN hist[p].row0.val[f] ELSE <<>>
            /\ \A m \in MediaFields :
                 loc[p].request[m].tag = "None" =>
                    /\ hist[p].stored.val[IsFileCol(m)] =
                         IF hist[p].row0.some THEN hist[p].row0.val[IsFileCol(m)] ELSE FALSE
                    /\ hist[p].stored.val[UrlCol(m)] =
                         IF hist[p].row0.some THEN hist[p].row0.val[UrlCol(m)] ELSE <<>>
                    /\ PriorIsFile(p, m) =>
                         Count(loc[p].files_to_delete, hist[p].row0.val[UrlCol(m)]) = 0

\* a request changed one field of a record whose unset fields hold a text
\* and a local file
UnsetWitness ==
    \E p \in Procs : \E f \in TextFields, m \in MediaFields :
        /\ hist[p].persisted
        /\ loc[p].request[f].tag = "None" /\ hist[p].row0.some
        /\ hist[p].row0.val[f] # <<>>
        /\ loc[p].request[m].tag = "None" /\ PriorIsFile(p, m)
        /\ hist[p].stored.val # hist[p].row0.val

\* text with every line break written as backslash n
RECURSIVE WithEscapes(_)
WithEscapes(s) ==
    IF Len(s) = 0 THEN <<>>
    ELSE (IF Head(s) = NL THEN <<BS, "n">> ELSE <<Head(s)>>) \o WithEscapes(Tail(s))

HasEscape(s) == \E i \in 1..(Len(s) - 1) : s[i] = BS /\ s[i + 1] = "n"

\* what persist stored for a cleared field: the type default
ClearStored(p) ==
    /\ \A f \in TextFields :
         loc[p].request[f].tag = "Clear" => hist[p].stored.val[f] = <<>>
    /\ \A m \in MediaFields :
         loc[p].request[m].tag = "Clear" =>
            /\ hist[p].stored.val[IsFileCol(m)] = FALSE
            /\ hist[p].stored.val[UrlCol(m)] = <<>>

\* what persist stored for a media field that was set: the URL, or the
\* name of the file the upload was written to
MediaSetStored(p) ==
    \A m \in MediaFields :
        loc[p].request[m].tag = "Some" =>
            LET x == loc[p].request[m].val
            IN  IF x.kind = "URL"
                THEN /\ hist[p].stored.val[IsFileCol(m)] = FALSE
                     /\ hist[p].stored.val[UrlCol(m)] = x.url
                ELSE /\ hist[p].stored.val[IsFileCol(m)] = TRUE
                     /\ hist[p].stored.val[UrlCol(m)] \in hist[p].written
                     /\ GuildPath(loc[p].key[1], hist[p].stored.val[UrlCol(m)]) \in fs

\* C5 as stated: after a successful configure a cleared field holds the
\* type default and a set field holds the supplied value.
SetStoresSuppliedValue ==
    \A p \in Procs :
        hist[p].persisted =>
            /\ ClearStored(p)
            /\ MediaSetStored(p)
            /\ \A f \in TextFields :
                 loc[p].request[f].tag = "Some" =>
                    hist[p].stored.val[f] = loc[p].request[f].val

\* C5 amended: after a successful configure a cleared field holds the type
\* default, a set media field holds the supplied URL or the name of the
\* file the upload was saved as, and a set text field holds the supplied
\* value with each backslash n replaced by a line break.
ClearAndSetStored ==
    \A p \in Procs :
        hist[p].persisted =>
            /\ ClearStored(p)
            /\ MediaSetStored(p)
            /\ \A f \in TextFields :
                 loc[p].request[f].tag = "Some" =>
                    /\ ~HasEscape(hist[p].stored.val[f])
                    /\ WithEscapes(hist[p].stored.val[f])
                         = WithEscapes(loc[p].request[f].val)

\* one request set a text holding backslash n, set an upload and a URL, and
\* cleared a text and a local file of the record
ClearAndSetWitness ==
    \E p \in Procs : \E f, g \in TextFields, m, u, c \in MediaFields :
        /\ hist[p].persisted
        /\ loc[p].request[f].tag = "Some" /\ HasEscape(loc[p].request[f].val)
        /\ loc[p].request[g].tag = "Clear"
        /\ hist[p].row0.some /\ hist[p].row0.val[g] # <<>>
        /\ loc[p].request[m].tag = "Some" /\ is_file(loc[p].request[m].val)
        /\ loc[p].request[u].tag = "Some" /\ ~is_file(loc[p].request[u].val)
        /\ loc[p].request[c].tag = "Clear" /\ PriorIsFile(p, c)


\* ----------------------------------------------------- rendering properties
\* the record the event handled last was rendered from
LastRow == find_by_id(db, last.key).val

\* the event handled last found its channel and its record and rendered
Rendered == last.kind # "none" /\ last.notify.reply.some

\* the stored text names a placeholder the substitution map lacks
ReferencesAbsent(text, args) ==
    \E i \in 1..Len(text) :
        text[i] \in PlaceholderTokens /\ PlaceholderKey(text[i]) \notin DOMAIN args

\* text field f of a rendered message
RenderedText(msg, f) == IF f = "content" THEN msg.content ELSE msg.embed[f]

\* C9: every text field (content, description, author, footer) whose stored
\* text references a placeholder absent from the substitution map is present
\* in the rendered message and equals the stored text verbatim.
UnresolvedPlaceholderKept ==
    Rendered =>
        \A f \in RenderedTexts :
            (LastRow[f] # EmptyString /\ ReferencesAbsent(LastRow[f], last.args))
                => RenderedText(last.notify.reply.val, f) = Opt(LastRow[f])

\* media field m of row references a local file that is not on disk
FileMissing(row, m) ==
    /\ row[IsFileCol(m)]
    /\ row[UrlCol(m)] # EmptyString
    /\ GuildPath(row["guild_id"], row[UrlCol(m)]) \notin fs

\* the attachments without the one named name
Without(atts, name) == SelectSeq(atts, LAMBDA n : n # name)

\* C10: when a media field of the rendered record references a local file
\* missing from the guild's directory, a message is still produced, and it
\* is the message that would be produced with the file present, less that
\* field's reference and attachment.
MissingFileOmitsOnlyField ==
    (last.kind # "none" /\ last.notify.channel.some /\ last.notify.format.some) =>
        /\ last.notify.reply.some
        /\ \A m \in RenderedMedia :
              FileMissing(LastRow, m) =>
                LET name == LastRow[UrlCol(m)]
                    msg == last.notify.reply.val
                    full == to_message(last.notify.content.val, last.key[1],
                                fs \cup {GuildPath(last.key[1], name)})
                IN  /\ msg.content = full.content
                    /\ msg.has_embed = full.has_embed
                    /\ msg.embed = [full.embed EXCEPT ![m] = OptNone]
                    /\ msg.files = Without(full.files, name)

\* a sent message whose thumbnail file is missing while its text and the
\* file of its author icon are rendered
MissingFileWitness ==
    /\ Rendered
    /\ last.notify.sent
    /\ FileMissing(LastRow, "thumbnail")
    /\ last.notify.reply.val.content.some
    /\ last.notify.reply.val.embed.author.some
    /\ last.notify.reply.val.embed.author_icon = Opt(AttachmentUrl(LastRow["author_icon_url"]))
    /\ last.notify.reply.val.files = <<LastRow["author_icon_url"]>>


\* the placeholder tokens a stored text holds
TokensOf(text) == {text[i] : i \in 1..Len(text)} \cap PlaceholderTokens

\* the rendered record has no media field
NoMediaFields(row) == \A m \in MediaFields : row[UrlCol(m)] = EmptyString

\* the substitution map holds every placeholder the record's text references
MapCoversText(row, args) ==
    \A f \in RenderedTexts : \A tok \in TokensOf(row[f]) : PlaceholderKey(tok) \in DOMAIN args

\* no rendered text field holds a placeholder token of its stored text
NoStoredTokenRendered(row, msg) ==
    \A f \in RenderedTexts :
        RenderedText(msg, f).some =>
            TokensOf(RenderedText(msg, f).val) \cap TokensOf(row[f]) = {}

ValuesHoldNoToken(args) == \A k \in DOMAIN args : TokensOf(args[k]) = {}

DetailsField(m) == IF m = "thumbnail" THEN "thumbnail" ELSE UrlCol(m)

\* the text an icon is attached to (the thumbnail is attached to none)
OwnerRendered(msg, m) ==
    CASE m = "thumbnail" -> TRUE
      [] m = "author_icon" -> msg.embed.author.some
      [] m = "footer_icon" -> msg.embed.footer.some

\* media field m of row is stored as a local file
StoredLocalFile(row, m) == row[IsFileCol(m)] /\ row[UrlCol(m)] # EmptyString

\* C12: for every substitution map, a media field stored as a local file
\* keeps the stored file name after substitution, also when formatting the
\* name would fail or change it, and the message references and attaches
\* the file under that name.
LocalFileNotSubstituted ==
    (Rendered /\ last.notify.content.val.embed.some) =>
        \A m \in RenderedMedia :
            StoredLocalFile(LastRow, m) =>
                LET name == LastRow[UrlCol(m)]
                    msg == last.notify.reply.val
                IN  /\ last.notify.content.val.embed.val[DetailsField(m)]
                            = Opt(MemberNotificationFile(TRUE, name))
                    /\ (~FileMissing(LastRow, m) /\ OwnerRendered(msg, m)) =>
                            /\ msg.embed[m] = Opt(AttachmentUrl(name))
                            /\ \E i \in 1..Len(msg.files) : msg.files[i] = name

\* a message with two local files, one whose name formatting would change
\* and one whose name cannot be formatted, and a thumbnail URL that was
\* substituted
LocalFileWitness ==
    /\ Rendered
    /\ StoredLocalFile(LastRow, "author_icon") /\ StoredLocalFile(LastRow, "footer_icon")
    /\ strfmt(LastRow["author_icon_url"], last.args).ok
    /\ strfmt(LastRow["author_icon_url"], last.args).val # LastRow["author_icon_url"]
    /\ ~strfmt(LastRow["footer_icon_url"], last.args).ok
    /\ last.notify.reply.val.files = <<LastRow["author_icon_url"], LastRow["footer_icon_url"]>>
    /\ LastRow["thumbnail_url"] = <<"{user_avatar}">>
    /\ last.notify.reply.val.embed.thumbnail = Opt(<<"v">>)


\* field f of row holds its default: empty text, or an empty non-file
\* reference
AtDefault(row, f) ==
    IF f \in TextFields THEN row[f] = EmptyString
    ELSE ~row[IsFileCol(f)] /\ row[UrlCol(f)] = EmptyString

\* the columns of field f
FieldCols(f) == IF f \in TextFields THEN {f} ELSE {IsFileCol(f), UrlCol(f)}

\* every field the request of p names is Clear and already at its default
OnlyClearsAtDefault(p) ==
    \A f \in TextFields \cup MediaFields :
        /\ loc[p].request[f].tag # "Some"
        /\ loc[p].request[f].tag = "Clear" => AtDefault(hist[p].row0.val, f)

\* a Clear of a field at its default stores what was stored; a request of
\* such Clears alone leaves the record as it was and orphans nothing
ClearAtDefaultKeeps ==
    \A p \in Procs :
        (hist[p].persisted /\ hist[p].row0.some) =>
            /\ \A f \in TextFields \cup MediaFields :
                 (loc[p].request[f].tag = "Clear" /\ AtDefault(hist[p].row0.val, f))
                    => \A c \in FieldCols(f) : hist[p].stored.val[c] = hist[p].row0.val[c]
            /\ OnlyClearsAtDefault(p) =>
                 /\ hist[p].stored.val = hist[p].row0.val
                 /\ loc[p].files_to_delete = <<>>
                 /\ hist[p].removed = {}

\* once the first invocation has ended in success, no step of the second
\* changes the store or the files
SecondChangesNothing ==
    (mode = "twice" /\ pc["A"] = "done" /\ loc["A"].result = "Ok")
        => (db' = db /\ fs' = fs)

\* C13: a Clear applied to a field that already holds its default leaves
\* the stored record unchanged and orphans no file; the same Clear request
\* applied a second time leaves the store and the guild's directory as the
\* first application left them.
ClearIdempotent == []ClearAtDefaultKeeps /\ [][SecondChangesNothing]_vars

\* the first application cleared a local file and deleted it, the second
\* ended in success having stored the same record and removed nothing
ClearTwiceWitness ==
    /\ mode = "twice"
    /\ pc["B"] = "done" /\ loc["B"].result = "Ok"
    /\ hist["A"].removed # {}
    /\ hist["A"].row0.some /\ hist["A"].stored.val # hist["A"].row0.val
    /\ hist["B"].persisted
    /\ hist["B"].stored = hist["A"].stored
    /\ hist["B"].removed = {}


\* the positions of v at which a backslash followed by n starts
EscapeStarts(v) == {i \in 1..(Len(v) - 1) : v[i] = BS /\ v[i + 1] = "n"}

\* the positions of v that yield a character of the stored text: all but
\* the n of each backslash n
Yielding(v) == {i \in 1..Len(v) : (i - 1) \notin EscapeStarts(v)}

\* the k-th yielding position of v
YieldingAt(v, k) ==
    CHOOSE i \in Yielding(v) : Cardinality({j \in Yielding(v) : j <= i}) = k

\* s is v with each backslash n replaced by one line break and every other
\* character kept
IsUnescaped(s, v) ==
    /\ Len(s) = Cardinality(Yielding(v))
    /\ \A k \in 1..Len(s) :
         LET i == YieldingAt(v, k)
         IN  s[k] = IF i \in EscapeStarts(v) THEN NL ELSE v[i]

\* C14: for every text field (content, title, description, author, footer)
\* and every supplied value v, Set(v) stores v with each backslash n
\* replaced by one line break and every other character unchanged.
EscapedNewlineStored ==
    \A p \in Procs :
        hist[p].persisted =>
            \A f \in TextFields :
                loc[p].request[f].tag = "Some" =>
                    IsUnescaped(hist[p].stored.val[f], loc[p].request[f].val)

\* a value with a doubled backslash and two backslash n in a row was stored
EscapedNewlineWitness ==
    \E p \in Procs, f \in TextFields :
        /\ hist[p].persisted
        /\ loc[p].request[f] = OcSome(TextEscTwice)
        /\ hist[p].stored.val[f] = <<BS, NL, NL, "n">>


\* the administrator supplied a value for field f
Supplied(raw, f) ==
    IF f \in TextFields THEN raw.text[f].some
    ELSE raw.file[f].some \/ raw.url[f].some

AllFields == TextFields \cup MediaFields

\* C15 as stated: a field with no supplied value is Clear in the full
\* command and Unset in a single-field command.
TriStateAsStated ==
    \A p \in Procs :
        pc[p] # "idle" =>
            \A f \in AllFields :
                ~Supplied(loc[p].raw, f) =>
                    loc[p].request[f] = IF loc[p].raw.kind = "full" THEN OcClear ELSE OcNone

\* C15 amended: the tri-state of a field depends only on whether a value was
\* supplied, on the command kind and on whether the command targets the
\* field: a supplied value is Set; without one the field is Clear in the
\* full command, Clear when it is the target of a single-field command, and
\* Unset when it is another field of a single-field command.
TriStateDerived ==
    \A p \in Procs :
        pc[p] # "idle" =>
            \A f \in AllFields :
                LET raw == loc[p].raw
                IN  loc[p].request[f].tag =
                        IF Supplied(raw, f) THEN "Some"
                        ELSE IF raw.kind = "full" \/ raw.target = f THEN "Clear"
                        ELSE "None"

\* a single-field command whose parameter was omitted
TriStateWitness ==
    \E p \in Procs :
        /\ pc[p] # "idle"
        /\ loc[p].raw.kind = "single"
        /\ ~Supplied(loc[p].raw, loc[p].raw.target)
        /\ loc[p].request[loc[p].raw.target] = OcClear
        /\ \A f \in AllFields \ {loc[p].raw.target} : loc[p].request[f] = OcNone


\* invocation p ran a single-field command with its parameter omitted
OmittedSingle(p) ==
    /\ loc[p].raw.kind = "single"
    /\ ~Supplied(loc[p].raw, loc[p].raw.target)

\* C16: a single-field command with its parameter omitted sets the targeted
\* field of the record to its empty default and leaves every other field of
\* the record unchanged (a record it creates holds the defaults).
OmittedParameterClears ==
    \A p \in Procs :
        (hist[p].persisted /\ OmittedSingle(p)) =>
            LET target == loc[p].raw.target
                stored == hist[p].stored.val
            IN  /\ AtDefault(stored, target)
                /\ \A c \in Columns \ (KeyCols \cup FieldCols(target)) :
                     stored[c] = IF hist[p].row0.some THEN hist[p].row0.val[c]
                                 ELSE ColumnDefault(c)

\* a record with every text set and local files in its media fields lost
\* the value of the one field the command names
OmittedParameterWitness ==
    \E p \in Procs :
        /\ hist[p].persisted /\ OmittedSingle(p)
        /\ hist[p].row0.some
        /\ \A f \in AllFields : ~AtDefault(hist[p].row0.val, f)
        /\ \A f \in AllFields :
             AtDefault(hist[p].stored.val, f) <=> f = loc[p].raw.target


\* the media fields for which the command of raw takes parameters
MediaParameters(raw) ==
    IF raw.kind = "full" THEN MediaFields ELSE {raw.target} \cap MediaFields

\* C17: for every media field, a command that supplies an uploaded file and
\* a URL carries Set(upload) and the URL is ignored (the record then holds
\* the saved file, not the URL); with only a URL it carries Set(Url); with
\* neither the value is not a Set.
UploadBeforeUrl ==
    \A p \in Procs :
        pc[p] # "idle" =>
            \A m \in MediaParameters(loc[p].raw) :
                LET file == loc[p].raw.file[m]
                    url == loc[p].raw.url[m]
                    value == loc[p].request[m]
                IN  /\ file.some => value = OcSome(EaFile(file.val))
                    /\ (~file.some /\ url.some) => value = OcSome(EaURL(url.val))
                    /\ (~file.some /\ ~url.some) => value.tag # "Some"
                    /\ (file.some /\ url.some /\ hist[p].persisted) =>
                            /\ hist[p].stored.val[IsFileCol(m)]
                            /\ hist[p].stored.val[UrlCol(m)] # url.val

\* a command supplied both for one field; the upload was saved and stored
UploadBeforeUrlWitness ==
    \E p \in Procs, m \in MediaFields :
        /\ hist[p].persisted
        /\ loc[p].raw.file[m].some /\ loc[p].raw.url[m].some
        /\ loc[p].request[m] = OcSome(EaFile(loc[p].raw.file[m].val))
        /\ hist[p].stored.val[IsFileCol(m)]
        /\ GuildPath(loc[p].key[1], hist[p].stored.val[UrlCol(m)]) \in fs


\* invocations p and q configure the same key and both set field f
BothSet(p, q, f) ==
    /\ p # q
    /\ loc[p].key = loc[q].key
    /\ loc[p].request[f].tag # "None"
    /\ loc[q].request[f].tag # "None"

\* the step in which p persists after q did, no store fault injected into
\* either: both persist steps succeed and the record holds what p wrote
SecondPersistWins ==
    \A p, q \in Procs : \A f \in AllFields :
        (/\ BothSet(p, q, f)
         /\ hist[q].issued /\ ~hist[q].db_fault
         /\ pc[p] = "persist" /\ hist'[p].issued /\ ~hist'[p].db_fault)
            => /\ hist[q].persisted
               /\ hist'[p].persisted
               /\ \A c \in FieldCols(f) :
                    find_by_id(db', loc[p].key).val[c] = loc[p].model[c].val

\* C18: for any interleaving of two configure invocations on the same key
\* that both set the same field and both reach the persist step, also when
\* no record existed when both loaded, both persist steps succeed and the
\* stored value of the field is the one written by the later persist step.
LastUpsertWins == [][SecondPersistWins]_vars


\* the record invocation p configured, as the store holds it
RecordOf(p) == find_by_id(db, loc[p].key).val

\* C19: once the persist step has succeeded, a failure to re-load the
\* record, to look up the guild counts or to load a local media file for
\* the preview does not make the invocation fail: unless sending a reply
\* failed, the invocation ends in success.
PreviewFailureIsSuccess ==
    \A p \in Procs :
        (hist[p].persisted /\ pc[p] = "done" /\ loc[p].errAt # "send")
            => loc[p].result = "Ok"

\* an invocation ended in success although the lookup of the guild counts
\* failed (the content that names {member_count} is not in the preview) and
\* the file of the thumbnail is missing
PreviewFailureWitness ==
    \E p \in Procs :
        /\ hist[p].persisted /\ pc[p] = "done" /\ loc[p].result = "Ok"
        /\ loc[p].format.some /\ loc[p].format.val.content = Opt(TextCount)
        /\ loc[p].reply.some /\ ~loc[p].reply.val.content.some
        /\ RecordOf(p)["thumbnail_is_file"]
        /\ GuildPath(loc[p].key[1], RecordOf(p)["thumbnail_url"]) \notin fs
        /\ loc[p].reply.val.has_embed /\ ~loc[p].reply.val.embed.thumbnail.some


\* the LocalFile-valued fields of the store: a row and a media field of it
LocalFileFields ==
    {rf \in db \X MediaFields : StoredLocalFile(rf[1], rf[2])}

\* C20: in every reachable state, across all records of both event types,
\* no local file name is referenced by more than one LocalFile-valued field.
ExclusiveFileOwnership ==
    \A a, b \in LocalFileFields :
        a[1][UrlCol(a[2])] = b[1][UrlCol(b[2])] => a = b

\* the Join record and the Leave record each hold an uploaded thumbnail
ExclusiveOwnershipWitness ==
    /\ \E r \in db : r["join"] /\ StoredLocalFile(r, "thumbnail")
    /\ \E r \in db : ~r["join"] /\ StoredLocalFile(r, "thumbnail")
    /\ Cardinality(LocalFileFields) >= 2

\* C21: once a configure invocation has returned an error raised while it
\* acquired media or at its persist step, and no remove_file call met an I/O
\* fault, no file it wrote is left in the guild's storage directory.
FailedConfigureLeavesNoFile ==
    \A p \in Procs :
        (pc[p] = "done" /\ loc[p].result = "Err"
            /\ loc[p].errAt \in {"media", "persist"} /\ ~hist[p].fault)
            => WrittenPaths(p) \cap fs = {}

\* ------------------------------------------------ configuration properties
\* a notification channel (a notification record) exists for the key
ChannelExists(key) == \E c \in channels : c.guild_id = key[1] /\ c.join = key[2]
RecordExists(key) == RowsWithKey(db, key) # {}

\* C22: on a member join (leave) event a notification is sent only if a
\* channel and a record both exist for the event's own key, and it is sent
\* whenever both exist and neither lookup nor the send fails; if either is
\* absent nothing is rendered or sent and the notification step returns Ok;
\* the details that are rendered are those of the record of the event's own
\* key; the handler itself always returns Ok.
AbsentConfigurationDisables ==
    last.kind # "none" =>
        LET both == ChannelExists(last.key) /\ RecordExists(last.key)
        IN  /\ last.notify.sent => both
            /\ (both /\ last.fault \notin {"channel", "details", "send"})
                    => last.notify.sent
            /\ ~both => (~last.notify.reply.some /\ last.notify.result = "Ok")
            /\ last.notify.format.some =>
                    /\ RecordExists(last.key)
                    /\ last.notify.format.val = DetailsOfRow(find_by_id(db, last.key).val)
            /\ last.result = "Ok"

\* a leave event in a guild with both channels and a Join record but no
\* Leave record: nothing is sent
OtherRecordWitness ==
    /\ last.kind = "leave"
    /\ last.fault = "none"
    /\ ChannelExists(LeaveKey) /\ ChannelExists(JoinKey)
    /\ RecordExists(JoinKey) /\ ~RecordExists(LeaveKey)
    /\ ~last.notify.sent

\* the role ids of the default roles configured for the guild
ConfiguredRoles(guild_id) == {r.role_id : r \in {x \in welcome_roles : x.guild_id = guild_id}}

\* the elements of a list
Range(list) == {list[i] : i \in 1..Len(list)}

\* a member joins and the lookup of the default roles does not fail
JoinStep == last' # last /\ last'.kind = "join" /\ last'.fault # "roles"

\* C23: after any sequence of add_default_member_role and
\* remove_default_member_role commands, when a member joins the guild the
\* set of roles the bot requests to add equals the set of default roles
\* configured for the guild at that time.
DefaultRolesRequested ==
    [][JoinStep =>
        /\ last'.roles.requested.some
        /\ Range(last'.roles.requested.val) = ConfiguredRoles(last'.key[1])]_vars

\* `mc remove name` is handled for a server that is registered in the guild,
\* and neither a query nor the reply fails
RemoveRegistered ==
    /\ last' # last
    /\ last'.kind = "mc remove"
    /\ last'.fault = "none"
    /\ mc_find_by_id(mc_server, last'.key[1], last'.key[2]).some

\* C24: when `mc remove name` is invoked in a guild where a server called
\* name is registered, the server is deleted from the store, the command
\* reports success, and every other registered server is unchanged.
RemoveDeletesRegistered ==
    [][RemoveRegistered =>
        /\ ~mc_find_by_id(mc_server', last'.key[1], last'.key[2]).some
        /\ last'.result.ok
        /\ mc_server' = mc_server \ {mc_find_by_id(mc_server, last'.key[1], last'.key[2]).val}]_vars

\* ------------------------------------------------- concurrency properties
\* p loaded the record, which existed, before q started; q has persisted;
\* p takes its persist step and no store fault is injected into it
StalePersist(p, q, f) ==
    /\ BothSet(p, q, f)
    /\ hist[p].seq < hist[q].seq
    /\ hist[q].persisted
    /\ loc[p].update
    /\ pc[p] = "persist" /\ hist'[p].issued /\ ~hist'[p].db_fault

\* C25: when invocation A loads an existing record before invocation B on
\* the same key and field starts, and B persists first, the later persist
\* step of A succeeds without an error and the stored value of the field is
\* the one A wrote (B's committed value is lost); such an interleaving
\* exists.
StaleOverwrite ==
    [][\A p, q \in Procs : \A f \in AllFields :
        StalePersist(p, q, f) =>
            /\ hist'[p].persisted
            /\ loc'[p].result # "Err"
            /\ \A c \in FieldCols(f) :
                  find_by_id(db', loc[p].key).val[c] = loc[p].model[c].val]_vars

\* A (a thumbnail upload) started first, B (a thumbnail URL) persisted
\* first, both returned Ok, and the record holds the file of A
StaleOverwriteWitness ==
    \E p, q \in Procs :
        /\ BothSet(p, q, "thumbnail")
        /\ 0 < hist[p].seq /\ hist[p].seq < hist[q].seq
        /\ pc[p] = "done" /\ pc[q] = "done"
        /\ loc[p].result = "Ok" /\ loc[q].result = "Ok"
        /\ hist[q].persisted /\ hist[q].stored.val["thumbnail_url"] = UrlH
        /\ hist[p].written # {}
        /\ find_by_id(db, loc[p].key).val["thumbnail_is_file"]
        /\ find_by_id(db, loc[p].key).val["thumbnail_url"] \in hist[p].written

\* C26: in every reachable state, under any interleaving of configure
\* invocations on the guild, every local file name held by a media field of
\* a stored record names a file that exists in the guild's storage
\* directory.
NoDanglingLocalReference ==
    \A r \in db : \A m \in MediaFields :
        StoredLocalFile(r, m) => GuildPath(r["guild_id"], r[UrlCol(m)]) \in fs

\* two invocations on one key have both persisted, one of them has deleted
\* the file its load found in the record, and the record holds an uploaded
\* thumbnail
ReplacedFileWitness ==
    \E p, q \in Procs :
        /\ p # q /\ loc[p].key = loc[q].key
        /\ pc[p] = "done" /\ pc[q] = "done"
        /\ hist[p].persisted /\ hist[q].persisted
        /\ hist[p].removed # {}
        /\ StoredLocalFile(find_by_id(db, loc[p].key).val, "thumbnail")

\* both invocations have run once and returned, and no download, persist or
\* delete step of either failed
AllCompletedCleanly ==
    \A p \in Procs :
        /\ pc[p] = "done" /\ hist[p].seq > 0
        /\ ~hist[p].fault /\ ~hist[p].db_fault
        /\ loc[p].errAt \notin {"media", "persist"}
        /\ loc[p].errors = <<>>

\* the LocalFile-valued fields that reference the file at path
ReferencesTo(path) ==
    {rf \in LocalFileFields : GuildPath(rf[1]["guild_id"], rf[1][UrlCol(rf[2])]) = path}

\* C27: when no download, persist or delete step fails, then once all
\* configure invocations have completed, also those that ran concurrently
\* on one key and uploaded a file for the same media field, every file in
\* the guild's storage directory is referenced by exactly one field of a
\* stored record.
NoLeakedFiles ==
    AllCompletedCleanly => \A path \in fs : Cardinality(ReferencesTo(path)) = 1

\* the key of the invocation p that takes the step
StepKey(p) == IF pc[p] = "idle" THEN loc'[p].key ELSE loc[p].key

\* the records of every key but key
RecordsBeside(rows, key) == {r \in rows : <<r["guild_id"], r["join"]>> # key}

\* C28: a step of a configure invocation for a key, whether the invocation
\* succeeds or fails, leaves the records of every other key (the other
\* event type of the guild and the records of other guilds) as they are,
\* and deletes no file that a record of another key references.
ConfinedToKey ==
    [][\A p \in Procs :
        StepOf(p) =>
            /\ RecordsBeside(db', StepKey(p)) = RecordsBeside(db, StepKey(p))
            /\ (fs \ fs') \cap StoreFiles(RecordsBeside(db, StepKey(p))) = {}]_vars

\* an invocation on the Join key has replaced the record's file and deleted
\* it, beside a Leave record and the record of another guild
ConfinedWitness ==
    \E p \in Procs :
        /\ loc[p].key = JoinKey
        /\ hist[p].persisted /\ hist[p].removed # {}
        /\ pc[p] = "done"
        /\ RecordsBeside(db, JoinKey) # {}
        /\ StoreFiles(RecordsBeside(db, JoinKey)) \subseteq fs
        /\ Cardinality(StoreFiles(RecordsBeside(db, JoinKey))) = 2

\* --------------------------------------------------------- embed properties
\* one of the stored description, author, footer or thumbnail reference of
\* row is non-empty
StoredEmbedField(row) ==
    \E c \in {"description", "author", "footer", "thumbnail_url"} : row[c] # EmptyString

\* the text an icon belongs to
IconOwner(m) == IF m = "author_icon" THEN "author" ELSE "footer"

\* the message references icon m or attaches its file
IconRendered(msg, row, m) ==
    \/ msg.embed[m].some
    \/ StoredLocalFile(row, m) /\ row[UrlCol(m)] \in Range(msg.files)

\* the only non-empty fields of row are icon references
OnlyIcons(row) ==
    /\ \A f \in TextFields : row[f] = EmptyString
    /\ row["thumbnail_url"] = EmptyString /\ row["image_url"] = EmptyString
    /\ \E m \in {"author_icon", "footer_icon"} : row[UrlCol(m)] # EmptyString

ReturnedAfterCleanup ==
    shutdown.pc = "returned" =>
        /\ shutdown.cleanup_calls = 1
        /\ shutdown.cleanup \in CleanupCompletions
        /\ shutdown.branch \in {"term", "client"}
        /\ shutdown.cleanup # "Ok" =>
                (~shutdown.result.ok /\ shutdown.result.error = shutdown.cleanup)
        /\ (shutdown.cleanup = "Ok" /\ shutdown.branch_result # "Ok") =>
                (~shutdown.result.ok /\ shutdown.result.source = shutdown.branch_result)
        /\ (shutdown.cleanup = "Ok" /\ shutdown.branch_result = "Ok") =>
                shutdown.result.ok

\* cleanup is not called before a branch is taken, and never twice
CleanupCalledOnce ==
    /\ shutdown.cleanup_calls <= 1
    /\ shutdown.pc = "select" => shutdown.cleanup_calls = 0
    /\ shutdown.pc = "cleanup" =>
            (shutdown.cleanup_calls = 1 /\ shutdown.cleanup = "running")

\* the function returns in the step in which the running cleanup completes,
\* and the branch taken is one whose future had completed
ReturnFollowsCleanup ==
    /\ shutdown'.pc = "returned" /\ shutdown.pc # "returned" =>
            (shutdown.pc = "cleanup" /\ shutdown.cleanup = "running")
    /\ shutdown'.pc = "cleanup" /\ shutdown.pc = "select" =>
            [branch |-> shutdown'.branch, result |-> shutdown'.branch_result]
                \in ReadyBranches(shutdown)

\* C30: whichever of the termination signal and the client future completes
\* first, cleanup is invoked exactly once and completes before
\* run_until_shutdown returns; an error of cleanup is the result, otherwise
\* the result is the error (if any) of the branch that completed.
CleanupExactlyOnce ==
    /\ [](ReturnedAfterCleanup /\ CleanupCalledOnce)
    /\ [][ReturnFollowsCleanup]_vars

\* both the termination signal and the client future had completed, the
\* client branch was taken with an error, cleanup succeeded, and the
\* function returned that error
ShutdownWitness ==
    /\ shutdown.pc = "returned"
    /\ shutdown.sigterm = "Ok" /\ shutdown.client = "serenity::Error"
    /\ shutdown.branch = "client"
    /\ shutdown.cleanup = "Ok"
    /\ ~shutdown.result.ok
    /\ shutdown.result.source = "serenity::Error"

=========================================================================
